---- MODULE Spec2Model ----
(***************************************************************************)
(* Model of the embedded controller of the autonomous haul truck:          *)
(* the synchronisation layer (EventManager, CircularBuffer, SharedState)   *)
(* and the periodic tasks built on it.                                     *)
(*                                                                         *)
(* Each subsystem has its own specification (SpecEvt, SpecBuf, ...) over   *)
(* the same variables; the variables a specification does not use stay at  *)
(* their initial values.                                                   *)
(***************************************************************************)
EXTENDS Integers, Sequences, FiniteSets, TLC

(***************************************************************************)
(* Bounds of the model                                                     *)
(***************************************************************************)
\* number of emit() calls explored on the event channel
MaxEmits == 3
\* capacity of the circular buffer under test (constructor argument `size`)
BufferSize == 3
\* number of write() calls explored between two clear() calls
MaxWrites == 5
\* number of commands the operator sends
MaxCommands == 2
\* capacity of the command queue
QueueSize == 1
\* number of keys the operator presses
MaxKeys == 4
\* number of fault events raised by fault monitoring
MaxFaults == 1
\* number of iterations of fault monitoring
MaxTicks == 3
\* number of waypoint lists the central station sends
MaxRoutes == 2
\* capacity of the waypoint queue
WaypointQueueSize == 2
\* number of mode changes explored
MaxModeChanges == 3
\* appends to the log file that fail
MaxSinkFailures == 2
\* other trucks in the mine
MaxPeers == 2
\* log entries the Data Collector produces
MaxLogs == 3
\* calls of get_latest_logs
MaxReads == 2
\* trucks that report to the supervisory station
MaxTrucks == 1
\* waypoints in the station's list
MaxWaypoints == 2
\* buttons pressed on the station
MaxClicks == 2

(***************************************************************************)
(* EventManager  (src/src/embedded/sync/event_manager.py)                  *)
(***************************************************************************)
VARIABLES
    events,        \* EventManager._events : event type -> list of events
    shutdownFlag,  \* EventManager._shutdown
    emLock,        \* EventManager._lock : "free" or the thread that holds it
    waiters,       \* threads suspended in _condition.wait, not yet notified
    pc,            \* per thread: position inside the EventManager call
    arg,           \* per thread: arguments of the call in progress
    emitted,       \* history: number of events emitted so far
    delivered      \* history: the events returned by wait_for_event/check_event, in order

evVars == <<events, shutdownFlag, emLock, waiters, pc, arg, emitted, delivered>>

\* the threads that use the event channel
Threads == {"t1", "t2", "t3"}

\* class EventType
EventType ==
    {"TEMPERATURE_FAULT", "ELECTRICAL_FAULT", "HYDRAULIC_FAULT", "FAULT_CLEARED",
     "MODE_CHANGED", "EMERGENCY_STOP", "EMERGENCY_RESET", "TARGET_REACHED",
     "SHUTDOWN", "NEW_ROUTE"}

\* the event types the threads of the channel specification emit and await
ChannelInputs == {"EMERGENCY_STOP", "MODE_CHANGED"}

\* Event(event_type, data, timestamp); the id stands for the object identity
Event(t, n) == [event_type |-> t, id |-> n]

\* Python's None
None == [event_type |-> "None", id |-> 0]

NoArg == [types |-> {}, timeout |-> FALSE]

\* `with self._lock:` / `with self._condition:` -- entering the block
Acquire(p) ==
    /\ emLock = "free"
    /\ emLock' = p

\* leaving the `with` block
Release(p) ==
    /\ emLock = p
    /\ emLock' = "free"

\* self._condition.notify_all(): no waiter stays suspended
NotifyOne(w) == IF w = {} THEN {} ELSE w \ {CHOOSE x \in w : TRUE}
NotifyNone(w) == w
NotifyAll(w) == {}

\* list.pop(0): the removed head and the remaining list
PopKeep(q) == [event |-> Head(q), rest |-> q]
PopLast(q) == [event |-> q[Len(q)], rest |-> SubSeq(q, 1, Len(q) - 1)]
Pop0(q) == [event |-> Head(q), rest |-> Tail(q)]

EventManagerInit ==
    /\ events = [t \in EventType |-> <<>>]
    /\ shutdownFlag = FALSE
    /\ emLock = "free"
    /\ waiters = {}
    /\ pc = [p \in Threads |-> "idle"]
    /\ arg = [p \in Threads |-> NoArg]
    /\ emitted = 0
    /\ delivered = <<>>

\* emit(event_type, data): the thread enters `with self._condition`
EmitCall(p, t) ==
    /\ pc[p] = "idle"
    /\ emitted < MaxEmits
    /\ Acquire(p)
    /\ pc' = [pc EXCEPT ![p] = "emit"]
    /\ arg' = [arg EXCEPT ![p] = [types |-> {t}, timeout |-> FALSE]]
    /\ UNCHANGED <<events, shutdownFlag, waiters, emitted, delivered>>

\* the call returns: the thread is outside the EventManager again
Return(p) ==
    /\ pc' = [pc EXCEPT ![p] = "idle"]
    /\ arg' = [arg EXCEPT ![p] = NoArg]

\* emit: append to the queue of the type, notify_all, leave the block
EmitBody(p) ==
    /\ pc[p] = "emit"
    /\ \E t \in arg[p].types :
          events' = [events EXCEPT ![t] = Append(@, Event(t, emitted + 1))]
    /\ emitted' = emitted + 1
    /\ waiters' = NotifyAll(waiters)
    /\ Release(p)
    /\ Return(p)
    /\ UNCHANGED <<shutdownFlag, delivered>>

\* wait_for_event(event_types, timeout): the thread enters the block
WaitCall(p, T, to) ==
    /\ pc[p] = "idle"
    /\ Acquire(p)
    /\ pc' = [pc EXCEPT ![p] = "wait_loop"]
    /\ arg' = [arg EXCEPT ![p] = [types |-> T, timeout |-> to]]
    /\ UNCHANGED <<events, shutdownFlag, waiters, emitted, delivered>>

\* one pass of `while not self._shutdown`, holding the lock: return None on
\* shutdown, else pop the head of a non-empty queue of the requested types
\* (the iteration order of the set is not fixed), else suspend in
\* _condition.wait, which releases the lock
WaitLoop(p) ==
    /\ pc[p] = "wait_loop"
    /\ Release(p)
    /\ IF shutdownFlag
       THEN /\ Return(p)
            /\ UNCHANGED <<events, waiters, delivered>>
       ELSE IF \E t \in arg[p].types : events[t] # <<>>
       THEN \E t \in arg[p].types :
               /\ events[t] # <<>>
               /\ events' = [events EXCEPT ![t] = Pop0(@).rest]
               /\ delivered' = Append(delivered, Pop0(events[t]).event)
               /\ Return(p)
               /\ UNCHANGED waiters
       ELSE /\ waiters' = waiters \cup {p}
            /\ pc' = [pc EXCEPT ![p] = "wait_blocked"]
            /\ UNCHANGED <<events, arg, delivered>>
    /\ UNCHANGED <<shutdownFlag, emitted>>

\* _condition.wait returned True: the notified thread re-acquired the lock
WaitWake(p) ==
    /\ pc[p] = "wait_blocked"
    /\ p \notin waiters
    /\ Acquire(p)
    /\ pc' = [pc EXCEPT ![p] = "wait_loop"]
    /\ UNCHANGED <<events, shutdownFlag, waiters, arg, emitted, delivered>>

\* _condition.wait(timeout) returned False: the thread re-acquires the lock,
\* returns None and leaves the block
WaitTimeout(p) ==
    /\ pc[p] = "wait_blocked"
    /\ p \in waiters
    /\ arg[p].timeout
    /\ emLock = "free"
    /\ waiters' = waiters \ {p}
    /\ Return(p)
    /\ UNCHANGED <<events, shutdownFlag, emLock, emitted, delivered>>

\* check_event(event_type): the thread enters `with self._lock`
CheckCall(p, t) ==
    /\ pc[p] = "idle"
    /\ Acquire(p)
    /\ pc' = [pc EXCEPT ![p] = "check"]
    /\ arg' = [arg EXCEPT ![p] = [types |-> {t}, timeout |-> FALSE]]
    /\ UNCHANGED <<events, shutdownFlag, waiters, emitted, delivered>>

\* check_event: pop the head if the queue is non-empty, else None
CheckBody(p) ==
    /\ pc[p] = "check"
    /\ Release(p)
    /\ \E t \in arg[p].types :
          IF events[t] # <<>>
          THEN /\ events' = [events EXCEPT ![t] = Pop0(@).rest]
               /\ delivered' = Append(delivered, Pop0(events[t]).event)
          ELSE UNCHANGED <<events, delivered>>
    /\ Return(p)
    /\ UNCHANGED <<shutdownFlag, waiters, emitted>>

\* clear_events(event_type): T is the one type given, or every type for None
ClearCall(p, T) ==
    /\ pc[p] = "idle"
    /\ Acquire(p)
    /\ pc' = [pc EXCEPT ![p] = "clear"]
    /\ arg' = [arg EXCEPT ![p] = [types |-> T, timeout |-> FALSE]]
    /\ UNCHANGED <<events, shutdownFlag, waiters, emitted, delivered>>

ClearBody(p) ==
    /\ pc[p] = "clear"
    /\ Release(p)
    /\ events' = [t \in EventType |-> IF t \in arg[p].types THEN <<>> ELSE events[t]]
    /\ Return(p)
    /\ UNCHANGED <<shutdownFlag, waiters, emitted, delivered>>

\* shutdown(): the thread enters `with self._condition`
ShutdownCall(p) ==
    /\ pc[p] = "idle"
    /\ Acquire(p)
    /\ pc' = [pc EXCEPT ![p] = "shutdown"]
    /\ arg' = [arg EXCEPT ![p] = NoArg]
    /\ UNCHANGED <<events, shutdownFlag, waiters, emitted, delivered>>

\* shutdown: set the flag, notify_all
ShutdownBody(p) ==
    /\ pc[p] = "shutdown"
    /\ Release(p)
    /\ shutdownFlag' = TRUE
    /\ waiters' = NotifyAll(waiters)
    /\ Return(p)
    /\ UNCHANGED <<events, emitted, delivered>>

EventManagerNext ==
    \E p \in Threads :
       \/ \E t \in ChannelInputs : EmitCall(p, t)
       \/ EmitBody(p)
       \/ \E T \in (SUBSET ChannelInputs) \ {{}} : \E to \in BOOLEAN : WaitCall(p, T, to)
       \/ WaitLoop(p)
       \/ WaitWake(p)
       \/ WaitTimeout(p)
       \/ \E t \in ChannelInputs : CheckCall(p, t)
       \/ CheckBody(p)
       \/ \E t \in ChannelInputs : ClearCall(p, {t})
       \/ ClearCall(p, EventType)
       \/ ClearBody(p)
       \/ ShutdownCall(p)
       \/ ShutdownBody(p)

(***************************************************************************)
(* CircularBuffer  (src/src/embedded/sync/circular_buffer.py)              *)
(* Every method body is one statement inside `with self._lock`, so each    *)
(* method is one atomic action.                                            *)
(***************************************************************************)
VARIABLES
    buffer,     \* CircularBuffer._buffer : deque(maxlen=size), oldest first
    written,    \* history: the samples written since creation or last clear
    bufRet      \* the last value a read method returned, with the history
                \* as it was when the method ran

bufVars == <<buffer, written, bufRet>>

\* the samples written (FilteredSensorData values, told apart by a number)
Samples == 1..2

Min(a, b) == IF a < b THEN a ELSE b
Max(a, b) == IF a > b THEN a ELSE b

\* deque.append on a deque(maxlen=n): a full deque drops its leftmost item
DequeAppendDropNewest(q, x, n) == IF Len(q) >= n THEN q ELSE Append(q, x)
DequeAppend(q, x, n) ==
    IF n = 0 THEN <<>>
    ELSE IF Len(q) >= n THEN Append(Tail(q), x)
    ELSE Append(q, x)

\* Python's lst[-n:] for n >= 0: -0 is 0, so lst[-0:] is the whole list
SliceLastN(lst, n) ==
    IF n = 0 \/ n >= Len(lst) THEN lst
    ELSE SubSeq(lst, Len(lst) - n + 1, Len(lst))

NoRead == [op |-> "none", value |-> <<>>, seen |-> <<>>]

CircularBufferInit ==
    /\ buffer = <<>>
    /\ written = <<>>
    /\ bufRet = NoRead

\* write(data)
Write(x) ==
    /\ Len(written) < MaxWrites
    /\ buffer' = DequeAppend(buffer, x, BufferSize)
    /\ written' = Append(written, x)
    /\ UNCHANGED bufRet

\* read_latest(): the newest sample, or None (here the empty list)
ReadLatest ==
    /\ bufRet' = [op |-> "read_latest",
                  value |-> IF Len(buffer) > 0 THEN <<buffer[Len(buffer)]>> ELSE <<>>,
                  seen |-> written]
    /\ UNCHANGED <<buffer, written>>

\* read_last_n(n)
ReadLastN(n) ==
    /\ bufRet' = [op |-> "read_last_n",
                  value |-> IF Len(buffer) > 0 THEN SliceLastN(buffer, n) ELSE <<>>,
                  seen |-> written]
    /\ UNCHANGED <<buffer, written>>

\* read_all()
ReadAll ==
    /\ bufRet' = [op |-> "read_all", value |-> buffer, seen |-> written]
    /\ UNCHANGED <<buffer, written>>

\* clear()
Clear ==
    /\ buffer' = <<>>
    /\ written' = <<>>
    /\ UNCHANGED bufRet

CircularBufferNext ==
    \/ \E x \in Samples : Write(x)
    \/ ReadLatest
    \/ \E n \in 0..(BufferSize + 1) : ReadLastN(n)
    \/ ReadAll
    \/ Clear

(***************************************************************************)
(* VehicleState  (src/src/models/vehicle_state.py)                         *)
(* Numbers are integers: metres, m/s, degrees Celsius, and actuator        *)
(* commands in units of 1.0.                                               *)
(***************************************************************************)
OperationMode == {"MANUAL_LOCAL", "AUTOMATIC_REMOTE"}
VehicleStatus == {"STOPPED", "RUNNING", "FAULT", "EMERGENCY"}

\* Python's None for an Optional[float]
NoneNum == -1000

\* the temperature above which has_fault() reports a fault
CriticalTemperature == 100

\* the fields of the dataclass, in declaration order (truck_id is constant)
FieldOrder ==
    <<"position_x", "position_y", "theta", "velocity", "mode", "status",
      "acceleration_cmd", "steering_cmd", "velocity_setpoint",
      "angular_setpoint", "target_x", "target_y", "temperature",
      "electrical_fault", "hydraulic_fault", "emergency_stop">>

\* VehicleState(truck_id): the defaults of the dataclass
InitialState ==
    [position_x |-> 0, position_y |-> 0, theta |-> 0, velocity |-> 0,
     mode |-> "MANUAL_LOCAL", status |-> "STOPPED",
     acceleration_cmd |-> 0, steering_cmd |-> 0,
     velocity_setpoint |-> 0, angular_setpoint |-> 0,
     target_x |-> NoneNum, target_y |-> NoneNum,
     temperature |-> 0, electrical_fault |-> FALSE,
     hydraulic_fault |-> FALSE, emergency_stop |-> FALSE]

\* VehicleState.has_fault
HasFaultNoEmergency(st) ==
    \/ st.electrical_fault
    \/ st.hydraulic_fault
    \/ st.temperature > CriticalTemperature
HasFault(st) ==
    \/ st.electrical_fault
    \/ st.hydraulic_fault
    \/ st.temperature > CriticalTemperature
    \/ st.emergency_stop

\* VehicleState.is_automatic / is_manual
IsAutomatic(st) == st.mode = "AUTOMATIC_REMOTE"
IsManual(st) == st.mode = "MANUAL_LOCAL"

(***************************************************************************)
(* SharedState  (src/src/embedded/sync/shared_state.py)                    *)
(* A mutator is the list of field assignments its body performs, in the    *)
(* order of the code; <<field, value>> is one `self._state.field = value`. *)
(***************************************************************************)
\* one assignment; update_state skips a key the state has no attribute for
AssignField(st, a) ==
    IF a[1] \in DOMAIN st THEN [st EXCEPT ![a[1]] = a[2]] ELSE st

\* the state after a list of assignments
RECURSIVE ApplySeq(_, _)
ApplySeq(st, as) ==
    IF Len(as) = 0 THEN st ELSE ApplySeq(AssignField(st, Head(as)), Tail(as))

\* set_position(x, y, theta, velocity)
SetPosition(x, y, theta, velocity) ==
    << <<"position_x", x>>, <<"position_y", y>>,
       <<"theta", theta>>, <<"velocity", velocity>> >>

\* set_actuators(acceleration, steering): the arguments are stored as given
SetActuators(acceleration, steering) ==
    << <<"acceleration_cmd", acceleration>>, <<"steering_cmd", steering>> >>

\* set_mode(mode)
SetMode(mode) == << <<"mode", mode>> >>

\* set_status(status)
SetStatus(status) == << <<"status", status>> >>

\* set_setpoints(velocity_sp, angular_sp): a None argument is skipped
SetSetpoints(velocity_sp, angular_sp) ==
    (IF velocity_sp # NoneNum THEN << <<"velocity_setpoint", velocity_sp>> >> ELSE <<>>)
    \o (IF angular_sp # NoneNum THEN << <<"angular_setpoint", angular_sp>> >> ELSE <<>>)

\* set_target(target_x, target_y): a None argument is skipped
SetTarget(target_x, target_y) ==
    (IF target_x # NoneNum THEN << <<"target_x", target_x>> >> ELSE <<>>)
    \o (IF target_y # NoneNum THEN << <<"target_y", target_y>> >> ELSE <<>>)

\* set_faults(temperature, electrical, hydraulic, emergency): kw holds the
\* arguments that are not None
SetFaults(kw) ==
    (IF "temperature" \in DOMAIN kw THEN << <<"temperature", kw.temperature>> >> ELSE <<>>)
    \o (IF "electrical" \in DOMAIN kw THEN << <<"electrical_fault", kw.electrical>> >> ELSE <<>>)
    \o (IF "hydraulic" \in DOMAIN kw THEN << <<"hydraulic_fault", kw.hydraulic>> >> ELSE <<>>)
    \o (IF "emergency" \in DOMAIN kw THEN << <<"emergency_stop", kw.emergency>> >> ELSE <<>>)

\* the fields read by get_state (deepcopy), get_position, get_actuators,
\* get_setpoints
GetState == FieldOrder
GetPosition == <<"position_x", "position_y", "theta", "velocity">>
GetActuators == <<"acceleration_cmd", "steering_cmd">>
GetSetpoints == <<"velocity_setpoint", "angular_setpoint">>

VARIABLES
    state,      \* SharedState._state : the VehicleState record
    ssLock,     \* SharedState._lock : "free" or the thread inside a method
    ssPc,       \* per thread: "idle", "write" (in a mutator), "read" (in a getter)
    ssTodo,     \* per thread: the assignments / field reads still to do
    ssSnap,     \* per thread: the fields a getter has copied so far
    committed   \* history: the state with every mutator applied as a whole
                \* at the moment it entered its `with self._lock`

ssVars == <<state, ssLock, ssPc, ssTodo, ssSnap, committed>>

\* the threads that call SharedState methods directly
Callers == {"c1", "c2"}

\* the empty copy
NoSnap == [f \in {} |-> 0]

SharedStateInit ==
    /\ state = InitialState
    /\ ssLock = "free"
    /\ ssPc = [p \in Callers |-> "idle"]
    /\ ssTodo = [p \in Callers |-> <<>>]
    /\ ssSnap = [p \in Callers |-> NoSnap]
    /\ committed = InitialState

\* `with self._lock:` -- entering
AcquireNoWait(p) == ssLock' = p
AcquireState(p) ==
    /\ ssLock = "free"
    /\ ssLock' = p

\* a thread calls a mutator and enters its `with self._lock`
MutatorCall(p, assignments) ==
    /\ ssPc[p] = "idle"
    /\ AcquireState(p)
    /\ ssPc' = [ssPc EXCEPT ![p] = "write"]
    /\ ssTodo' = [ssTodo EXCEPT ![p] = assignments]
    /\ committed' = ApplySeq(committed, assignments)
    /\ UNCHANGED <<state, ssSnap>>

\* one `self._state.field = value` (one setattr of update_state)
WriteField(p) ==
    /\ ssPc[p] = "write"
    /\ Len(ssTodo[p]) > 0
    /\ state' = AssignField(state, Head(ssTodo[p]))
    /\ ssTodo' = [ssTodo EXCEPT ![p] = Tail(@)]
    /\ UNCHANGED <<ssLock, ssPc, ssSnap, committed>>

\* the mutator leaves its `with` block
MutatorReturn(p) ==
    /\ ssPc[p] = "write"
    /\ Len(ssTodo[p]) = 0
    /\ ssLock' = "free"
    /\ ssPc' = [ssPc EXCEPT ![p] = "idle"]
    /\ UNCHANGED <<state, ssTodo, ssSnap, committed>>

\* a thread calls a getter and enters its `with self._lock`
GetterCall(p, fields) ==
    /\ ssPc[p] = "idle"
    /\ AcquireState(p)
    /\ ssPc' = [ssPc EXCEPT ![p] = "read"]
    /\ ssTodo' = [ssTodo EXCEPT ![p] = fields]
    /\ ssSnap' = [ssSnap EXCEPT ![p] = NoSnap]
    /\ UNCHANGED <<state, committed>>

\* the getter copies one field
ReadField(p) ==
    /\ ssPc[p] = "read"
    /\ Len(ssTodo[p]) > 0
    /\ LET f == Head(ssTodo[p]) IN
          ssSnap' = [ssSnap EXCEPT ![p] =
                       [g \in DOMAIN @ \cup {f} |-> IF g = f THEN state[f] ELSE @[g]]]
    /\ ssTodo' = [ssTodo EXCEPT ![p] = Tail(@)]
    /\ UNCHANGED <<state, ssLock, ssPc, committed>>

\* the getter returns its copy and leaves the `with` block
GetterReturn(p) ==
    /\ ssPc[p] = "read"
    /\ Len(ssTodo[p]) = 0
    /\ ssLock' = "free"
    /\ ssPc' = [ssPc EXCEPT ![p] = "idle"]
    /\ ssSnap' = [ssSnap EXCEPT ![p] = NoSnap]
    /\ UNCHANGED <<state, ssTodo, committed>>

\* the argument values the callers use
PositionInputs == {<<1, 1, 1, 1>>, <<2, 0, 1, 2>>}
ActuatorInputs == {-2, -1, 0, 1, 2}
SetpointInputs == {NoneNum, 3}

SharedStateNext ==
    \E p \in Callers :
       \/ \E a \in PositionInputs : MutatorCall(p, SetPosition(a[1], a[2], a[3], a[4]))
       \/ \E a, s \in ActuatorInputs : MutatorCall(p, SetActuators(a, s))
       \/ \E v, a \in SetpointInputs : MutatorCall(p, SetSetpoints(v, a))
       \/ MutatorCall(p, SetFaults([temperature |-> 105, electrical |-> TRUE]))
       \/ MutatorCall(p, SetFaults([temperature |-> 30, electrical |-> FALSE,
                                    hydraulic |-> FALSE, emergency |-> FALSE]))
       \* update_state(acceleration_cmd=.., steering_cmd=..)
       \/ MutatorCall(p, << <<"acceleration_cmd", 2>>, <<"steering_cmd", -1>> >>)
       \* update_state(velocity=.., speed=..): `speed` is no attribute
       \/ MutatorCall(p, << <<"velocity", 1>>, <<"speed", 1>> >>)
       \/ WriteField(p)
       \/ MutatorReturn(p)
       \/ GetterCall(p, GetState)
       \/ GetterCall(p, GetPosition)
       \/ GetterCall(p, GetActuators)
       \/ GetterCall(p, GetSetpoints)
       \/ ReadField(p)
       \/ GetterReturn(p)

(***************************************************************************)
(* The periodic tasks.  Each call of a SharedState or EventManager method  *)
(* is one atomic action here (the method runs under the object's lock);    *)
(* the tasks interleave between calls.                                     *)
(***************************************************************************)
VARIABLES
    cmdQueue,           \* command_queue : queue.Queue of command types
    cmdsSent,           \* history: number of send_command calls
    faultsRaised,       \* history: number of fault events emitted
    clPc,               \* Command Logic: "idle", "decide", "run"
    clCmd,              \* Command Logic: the command (or event) being handled
    clPlan,             \* Command Logic: the calls still to make for it
    navPc,              \* Navigation Control: position in the iteration
    navSnap,            \* Navigation Control: `state`, the copy of get_state()
    prevModeAutomatic,  \* NavigationControlTask._prev_mode_automatic
    controllers,        \* the two PID controllers: enabled or not
    navRanPid,          \* history: the current/last iteration ran the PIDs
    navZeroed           \* history: the current/last iteration wrote (0, 0)

taskVars == <<cmdQueue, cmdsSent, faultsRaised, clPc, clCmd, clPlan, navPc,
              navSnap, prevModeAutomatic, controllers, navRanPid, navZeroed>>

\* a SharedState mutator call as a whole
StateCall(assignments) ==
    /\ state' = ApplySeq(state, assignments)
    /\ committed' = ApplySeq(committed, assignments)
    /\ UNCHANGED <<ssLock, ssPc, ssTodo, ssSnap>>

\* EventManager.emit as a whole
EmitEvent(t) ==
    /\ events' = [events EXCEPT ![t] = Append(@, Event(t, emitted + 1))]
    /\ emitted' = emitted + 1
    /\ waiters' = NotifyAll(waiters)
    /\ UNCHANGED <<shutdownFlag, emLock, pc, arg, delivered>>

\* EventManager.check_event as a whole; the result is events[t] # <<>>
CheckEvent(t) ==
    /\ IF events[t] # <<>>
       THEN /\ events' = [events EXCEPT ![t] = Pop0(@).rest]
            /\ delivered' = Append(delivered, Pop0(events[t]).event)
       ELSE UNCHANGED <<events, delivered>>
    /\ UNCHANGED <<shutdownFlag, emLock, waiters, pc, arg, emitted>>

\* the command types the operator issues in the model
CommandType ==
    {"ENABLE_AUTOMATIC", "DISABLE_AUTOMATIC", "EMERGENCY_STOP",
     "RESET_EMERGENCY", "RESET_FAULT"}

TasksInit ==
    /\ cmdQueue = <<>>
    /\ cmdsSent = 0
    /\ faultsRaised = 0
    /\ clPc = "idle"
    /\ clCmd = "none"
    /\ clPlan = <<>>
    /\ navPc = "snapshot"
    /\ navSnap = InitialState
    /\ prevModeAutomatic = FALSE
    /\ controllers = [velocity |-> FALSE, angular |-> FALSE]
    /\ navRanPid = FALSE
    /\ navZeroed = FALSE

(***************************************************************************)
(* LocalInterfaceTask.send_command  (src/src/embedded/tasks/               *)
(* local_interface.py) and the fault events of FaultMonitoringTask         *)
(***************************************************************************)
\* send_command: put_nowait; a full queue drops the command
SendCommand(c) ==
    /\ cmdsSent < MaxCommands
    /\ cmdsSent' = cmdsSent + 1
    /\ cmdQueue' = IF Len(cmdQueue) < QueueSize THEN Append(cmdQueue, c) ELSE cmdQueue
    /\ UNCHANGED <<faultsRaised, clPc, clCmd, clPlan, navPc, navSnap,
                   prevModeAutomatic, controllers, navRanPid, navZeroed>>
    /\ UNCHANGED <<evVars, bufVars, ssVars>>

\* LocalInterfaceTask.run: one key of the operator and the send_command call
\* of its branch ('A', 'M', 'W', ' ', 'R'); every other key sends nothing
PressKey(key) ==
    LET command_type ==
            CASE key = "A" -> "ENABLE_AUTOMATIC"
              [] key = "M" -> "DISABLE_AUTOMATIC"
              [] key = "W" -> "ACCELERATE"
              [] key = " " -> "EMERGENCY_STOP"
              [] key = "R" -> "RESET_EMERGENCY"
    IN  /\ cmdsSent < MaxKeys
        /\ cmdsSent' = cmdsSent + 1
        /\ cmdQueue' = IF Len(cmdQueue) < QueueSize
                        THEN Append(cmdQueue, command_type)
                        ELSE cmdQueue
        /\ UNCHANGED <<faultsRaised, clPc, clCmd, clPlan, navPc, navSnap,
                       prevModeAutomatic, controllers, navRanPid, navZeroed>>
        /\ UNCHANGED <<evVars, bufVars, ssVars>>

\* FaultMonitoringTask.run: emit(ELECTRICAL_FAULT) on a rising edge
RaiseElectricalFault ==
    /\ faultsRaised < MaxFaults
    /\ faultsRaised' = faultsRaised + 1
    /\ EmitEvent("ELECTRICAL_FAULT")
    /\ UNCHANGED <<cmdQueue, cmdsSent, clPc, clCmd, clPlan, navPc, navSnap,
                   prevModeAutomatic, controllers, navRanPid, navZeroed>>
    /\ UNCHANGED <<bufVars, ssVars>>

(***************************************************************************)
(* Command Logic task: its source file is not part of src/; modelled from  *)
(* the transition table of the specification (section 4.8) over the        *)
(* SharedState and EventManager methods of src/.                           *)
(***************************************************************************)
\* one call of the plan: a SharedState mutator or an emit
StateStep(assignments) == [assigns |-> assignments, emit |-> "none"]
EmitStep(t) == [assigns |-> <<>>, emit |-> t]

\* the calls that handle command c when the state is st; the order of the
\* status and emergency_stop calls of EMERGENCY_STOP is given by statusFirst
CommandPlan(c, st, statusFirst) ==
    CASE c = "EMERGENCY_STOP" ->
           (IF statusFirst
            THEN <<StateStep(SetStatus("EMERGENCY")),
                   StateStep(SetFaults([emergency |-> TRUE]))>>
            ELSE <<StateStep(SetFaults([emergency |-> TRUE])),
                   StateStep(SetStatus("EMERGENCY"))>>)
           \o <<StateStep(SetActuators(0, 0)), StateStep(SetSetpoints(0, 0)),
                EmitStep("EMERGENCY_STOP")>>
      [] c = "RESET_EMERGENCY" ->
           IF st.status = "EMERGENCY"
           THEN <<StateStep(SetFaults([emergency |-> FALSE])),
                  StateStep(SetStatus("STOPPED")),
                  StateStep(SetMode("MANUAL_LOCAL")),
                  EmitStep("EMERGENCY_RESET")>>
           ELSE <<>>
      [] c = "RESET_FAULT" ->
           IF st.status = "FAULT"
           THEN <<StateStep(SetFaults([electrical |-> FALSE, hydraulic |-> FALSE])),
                  StateStep(SetStatus("STOPPED")),
                  StateStep(SetMode("MANUAL_LOCAL")),
                  EmitStep("FAULT_CLEARED")>>
           ELSE <<>>
      [] c = "ENABLE_AUTOMATIC" ->
           IF IsManual(st) /\ ~HasFault(st)
           THEN <<StateStep(SetMode("AUTOMATIC_REMOTE")),
                  StateStep(SetStatus("RUNNING")),
                  EmitStep("MODE_CHANGED")>>
           ELSE <<>>
      [] c = "DISABLE_AUTOMATIC" ->
           IF IsAutomatic(st)
           THEN <<StateStep(SetMode("MANUAL_LOCAL")), EmitStep("MODE_CHANGED")>>
           ELSE <<>>
      \* ACCELERATE: in manual mode without a fault the actuator is adjusted
      \* by the value and clamped to [-1, 1]; the value 0.5 of the 'W' key is
      \* one unit of the integer actuator range -1 .. 1 here
      [] c = "ACCELERATE" ->
           IF IsManual(st) /\ ~HasFault(st)
           THEN <<StateStep(SetActuators(Max(-1, Min(1, st.acceleration_cmd + 1)),
                                         st.steering_cmd))>>
           ELSE <<>>
      \* an ELECTRICAL_FAULT event: status FAULT (an emergency keeps its
      \* status), actuators and setpoints zeroed
      [] c = "ELECTRICAL_FAULT" ->
           <<StateStep(SetFaults([electrical |-> TRUE]))>>
           \o (IF st.status = "EMERGENCY" THEN <<>>
               ELSE <<StateStep(SetStatus("FAULT"))>>)
           \o <<StateStep(SetActuators(0, 0)), StateStep(SetSetpoints(0, 0))>>

\* pop the next command of the input queue
CLTakeCommand ==
    /\ clPc = "idle"
    /\ Len(cmdQueue) > 0
    /\ clCmd' = Head(cmdQueue)
    /\ cmdQueue' = Tail(cmdQueue)
    /\ clPc' = "decide"
    /\ UNCHANGED <<cmdsSent, faultsRaised, clPlan, navPc, navSnap,
                   prevModeAutomatic, controllers, navRanPid, navZeroed>>
    /\ UNCHANGED <<evVars, bufVars, ssVars>>

\* consume a pending fault event of the event channel
CLTakeFaultEvent ==
    /\ clPc = "idle"
    /\ events["ELECTRICAL_FAULT"] # <<>>
    /\ CheckEvent("ELECTRICAL_FAULT")
    /\ clCmd' = "ELECTRICAL_FAULT"
    /\ clPc' = "decide"
    /\ UNCHANGED <<cmdQueue, cmdsSent, faultsRaised, clPlan, navPc, navSnap,
                   prevModeAutomatic, controllers, navRanPid, navZeroed>>
    /\ UNCHANGED <<bufVars, ssVars>>

\* read the state and choose the transition of the table
CLDecide ==
    /\ clPc = "decide"
    /\ \E statusFirst \in BOOLEAN : clPlan' = CommandPlan(clCmd, state, statusFirst)
    /\ clPc' = "run"
    /\ UNCHANGED <<cmdQueue, cmdsSent, faultsRaised, clCmd, navPc, navSnap,
                   prevModeAutomatic, controllers, navRanPid, navZeroed>>
    /\ UNCHANGED <<evVars, bufVars, ssVars>>

\* make the next call of the transition; after the last one the task is idle
CLStep ==
    /\ clPc = "run"
    /\ IF Len(clPlan) = 0
       THEN /\ clPc' = "idle"
            /\ UNCHANGED <<clPlan, evVars, ssVars>>
       ELSE /\ clPlan' = Tail(clPlan)
            /\ clPc' = "run"
            /\ IF Head(clPlan).emit = "none"
               THEN StateCall(Head(clPlan).assigns) /\ UNCHANGED evVars
               ELSE EmitEvent(Head(clPlan).emit) /\ UNCHANGED ssVars
    /\ UNCHANGED <<cmdQueue, cmdsSent, faultsRaised, clCmd, navPc, navSnap,
                   prevModeAutomatic, controllers, navRanPid, navZeroed>>
    /\ UNCHANGED bufVars

(***************************************************************************)
(* PID controllers: src/embedded/control is not part of src/; modelled     *)
(* from section 4.5 of the specification by their contract: the output is  *)
(* saturated to [-1, 1], and compute is a no-op returning 0 while the      *)
(* controller is disabled.                                                 *)
(***************************************************************************)
PidOutputs(enabled) == IF enabled THEN {-1, 0, 1} ELSE {0}

(***************************************************************************)
(* NavigationControlTask.run  (src/src/embedded/tasks/                     *)
(* navigation_control.py)                                                  *)
(***************************************************************************)
\* state = self.shared_state.get_state()
NavSnapshot ==
    /\ navPc = "snapshot"
    /\ navSnap' = state
    /\ navRanPid' = FALSE
    /\ navZeroed' = FALSE
    /\ navPc' = "control"
    /\ UNCHANGED <<cmdQueue, cmdsSent, faultsRaised, clPc, clCmd, clPlan,
                   prevModeAutomatic, controllers>>
    /\ UNCHANGED <<evVars, bufVars, ssVars>>

\* the controllers after the mode-edge test of the iteration
ControllersAfterEdge ==
    IF IsAutomatic(navSnap) /\ ~prevModeAutomatic
    THEN [velocity |-> TRUE, angular |-> TRUE]
    ELSE IF ~IsAutomatic(navSnap) /\ prevModeAutomatic
    THEN [velocity |-> FALSE, angular |-> FALSE]
    ELSE controllers

\* mode-edge test, then _execute_control (both PIDs, set_actuators) in
\* automatic mode unless status is EMERGENCY, else set_setpoints in manual
NavControl ==
    /\ navPc = "control"
    /\ controllers' = ControllersAfterEdge
    /\ prevModeAutomatic' = IsAutomatic(navSnap)
    /\ IF IsAutomatic(navSnap) /\ navSnap.status # "EMERGENCY"
       THEN /\ \E a \in PidOutputs(controllers'.velocity) :
               \E s \in PidOutputs(controllers'.angular) :
                  StateCall(SetActuators(a, s))
            /\ navRanPid' = TRUE
       ELSE IF IsManual(navSnap)
       THEN /\ StateCall(SetSetpoints(navSnap.velocity, navSnap.theta))
            /\ UNCHANGED navRanPid
       ELSE UNCHANGED <<ssVars, navRanPid>>
    /\ navPc' = "check_events"
    /\ UNCHANGED <<cmdQueue, cmdsSent, faultsRaised, clPc, clCmd, clPlan,
                   navSnap, navZeroed>>
    /\ UNCHANGED <<evVars, bufVars>>

\* _check_fault_events: check_event(EMERGENCY_STOP); on an event disable
\* the controllers
NavCheckFaultEvents ==
    /\ navPc = "check_events"
    /\ CheckEvent("EMERGENCY_STOP")
    /\ IF events["EMERGENCY_STOP"] # <<>>
       THEN /\ controllers' = [velocity |-> FALSE, angular |-> FALSE]
            /\ navPc' = "zero_actuators"
       ELSE /\ UNCHANGED controllers
            /\ navPc' = "snapshot"
    /\ UNCHANGED <<cmdQueue, cmdsSent, faultsRaised, clPc, clCmd, clPlan,
                   navSnap, prevModeAutomatic, navRanPid, navZeroed>>
    /\ UNCHANGED <<bufVars, ssVars>>

\* _check_fault_events: set_actuators(0.0, 0.0) after an EMERGENCY_STOP event
NavZeroActuators ==
    /\ navPc = "zero_actuators"
    /\ StateCall(SetActuators(0, 0))
    /\ navZeroed' = TRUE
    /\ navPc' = "snapshot"
    /\ UNCHANGED <<cmdQueue, cmdsSent, faultsRaised, clPc, clCmd, clPlan,
                   navSnap, prevModeAutomatic, controllers, navRanPid>>
    /\ UNCHANGED <<evVars, bufVars>>

TasksNext ==
    \/ \E c \in CommandType : SendCommand(c)
    \/ RaiseElectricalFault
    \/ CLTakeCommand
    \/ CLTakeFaultEvent
    \/ CLDecide
    \/ CLStep
    \/ NavSnapshot
    \/ NavControl
    \/ NavCheckFaultEvents
    \/ NavZeroActuators

(***************************************************************************)
(* DataCollectorTask  (src/src/embedded/tasks/data_collector.py)           *)
(***************************************************************************)
VARIABLES
    dcPc,           \* Data Collector: "snapshot", the event type about to be
                    \* polled in _check_events, or "write"
    dcDescription,  \* log_entry.event_description of the current iteration
    dcTaken,        \* history: the events the current iteration has consumed
    sinkOk,         \* whether open(self.log_file, 'a') and f.write succeed
    dcFailed        \* history: the entries whose append raised, oldest first

dcVars == <<dcPc, dcDescription, dcTaken, sinkOk, dcFailed>>

\* the event types _check_events polls, in the order of its calls
LoggedEvents ==
    <<"MODE_CHANGED", "EMERGENCY_STOP", "EMERGENCY_RESET", "TARGET_REACHED">>

\* the description _check_events gives the entry for an event of type t
Description(t) ==
    CASE t = "MODE_CHANGED" -> "Modo alterado"
      [] t = "EMERGENCY_STOP" -> "EMERGENCIA ACIONADA"
      [] t = "EMERGENCY_RESET" -> "Emergencia resetada"
      [] t = "TARGET_REACHED" -> "Destino alcancado"

DataCollectorInit ==
    /\ dcPc = "snapshot"
    /\ dcDescription = "Status normal"
    /\ dcTaken = {}
    /\ sinkOk = TRUE
    /\ dcFailed = <<>>

\* get_state and the LogEntry with event_description "Status normal"
DCSnapshot ==
    /\ dcPc = "snapshot"
    /\ dcPc' = LoggedEvents[1]
    /\ dcDescription' = "Status normal"
    /\ dcTaken' = {}
    /\ UNCHANGED <<sinkOk, dcFailed>>

\* one check_event call of _check_events: an event found sets the
\* description and returns, else the next type is polled
DCCheckEvents ==
    /\ \E k \in DOMAIN LoggedEvents : dcPc = LoggedEvents[k]
    /\ CheckEvent(dcPc)
    /\ IF events[dcPc] # <<>>
       THEN /\ dcDescription' = Description(dcPc)
            /\ dcTaken' = dcTaken \cup {Pop0(events[dcPc]).event}
            /\ dcPc' = "write"
       ELSE /\ dcPc' = (LET k == CHOOSE i \in DOMAIN LoggedEvents :
                                      LoggedEvents[i] = dcPc
                        IN  IF k < Len(LoggedEvents)
                            THEN LoggedEvents[k + 1] ELSE "write")
            /\ UNCHANGED <<dcDescription, dcTaken>>
    /\ UNCHANGED <<sinkOk, dcFailed>>

\* _write_log and log_queue.put_nowait; the entry ends with the iteration.
\* _write_log appends the entry of this iteration and nothing else; when the
\* append raises, the error is printed and the entry is kept nowhere but in
\* log_queue
DCWriteLog ==
    /\ dcPc = "write"
    /\ sinkOk \/ Len(dcFailed) < MaxSinkFailures
    /\ dcPc' = "snapshot"
    /\ dcFailed' = IF sinkOk THEN dcFailed ELSE Append(dcFailed, dcDescription)
    /\ dcDescription' = "Status normal"
    /\ dcTaken' = {}
    /\ UNCHANGED sinkOk

\* the log file becomes unwritable (disk full, directory removed) ...
SinkFail ==
    /\ sinkOk
    /\ sinkOk' = FALSE
    /\ UNCHANGED <<dcPc, dcDescription, dcTaken, dcFailed>>

\* ... and writable again
SinkRecover ==
    /\ ~sinkOk
    /\ sinkOk' = TRUE
    /\ UNCHANGED <<dcPc, dcDescription, dcTaken, dcFailed>>

(***************************************************************************)
(* FaultMonitoringTask  (src/src/embedded/tasks/fault_monitoring.py)       *)
(***************************************************************************)
VARIABLES
    fmPc,        \* Fault Monitoring: "read" or the channel about to be tested
    fmSensor,    \* sensor_data of the current iteration
    prevFault,   \* _prev_temp_fault, _prev_elec_fault, _prev_hydr_fault
    fmTicks,     \* history: number of iterations started
    fmLog        \* history: the (event type, channel) of every emit, in order

fmVars == <<fmPc, fmSensor, prevFault, fmTicks, fmLog>>

\* the channels in the order run tests them
Channels == <<"temperature", "electrical", "hydraulic">>

\* the event emitted on a rising edge of channel ch
FaultEvent(ch) ==
    CASE ch = "temperature" -> "TEMPERATURE_FAULT"
      [] ch = "electrical" -> "ELECTRICAL_FAULT"
      [] ch = "hydraulic" -> "HYDRAULIC_FAULT"

\* the fault condition of channel ch in the sensor data sd
ChannelFault(ch, sd) ==
    CASE ch = "temperature" -> sd.temperature > CriticalTemperature
      [] ch = "electrical" -> sd.electrical_fault
      [] ch = "hydraulic" -> sd.hydraulic_fault

\* the sensor data an iteration may read
SensorInputs ==
    [temperature : {CriticalTemperature, CriticalTemperature + 1},
     electrical_fault : BOOLEAN, hydraulic_fault : BOOLEAN]

\* a changed test that fires whenever the fault is present
RisingEdgeLevel(fault, prev) == fault

\* `fault and not self._prev_fault`
RisingEdge(fault, prev) == fault /\ ~prev

\* `not fault and self._prev_fault`
FallingEdge(fault, prev) == ~fault /\ prev

FaultMonitoringInit ==
    /\ fmPc = "read"
    /\ fmSensor = [temperature |-> 0, electrical_fault |-> FALSE,
                   hydraulic_fault |-> FALSE]
    /\ prevFault = [ch \in {"temperature", "electrical", "hydraulic"} |-> FALSE]
    /\ fmTicks = 0
    /\ fmLog = <<>>

\* sensor_data = self.sensor_reader()
FMReadSensors ==
    /\ fmPc = "read"
    /\ fmTicks < MaxTicks
    /\ fmTicks' = fmTicks + 1
    /\ \E sd \in SensorInputs : fmSensor' = sd
    /\ fmPc' = Channels[1]
    /\ UNCHANGED <<prevFault, fmLog>>

\* the if/elif of one channel: emit on a change and remember the new value
FMCheckChannel ==
    /\ \E k \in DOMAIN Channels : fmPc = Channels[k]
    /\ LET fault == ChannelFault(fmPc, fmSensor)
           k == CHOOSE i \in DOMAIN Channels : Channels[i] = fmPc
       IN  /\ IF RisingEdge(fault, prevFault[fmPc])
              THEN /\ EmitEvent(FaultEvent(fmPc))
                   /\ fmLog' = Append(fmLog, <<FaultEvent(fmPc), fmPc>>)
                   /\ prevFault' = [prevFault EXCEPT ![fmPc] = TRUE]
              ELSE IF FallingEdge(fault, prevFault[fmPc])
              THEN /\ EmitEvent("FAULT_CLEARED")
                   /\ fmLog' = Append(fmLog, <<"FAULT_CLEARED", fmPc>>)
                   /\ prevFault' = [prevFault EXCEPT ![fmPc] = FALSE]
              ELSE UNCHANGED <<evVars, fmLog, prevFault>>
           /\ fmPc' = IF k < Len(Channels) THEN Channels[k + 1] ELSE "read"
    /\ UNCHANGED <<fmSensor, fmTicks>>

(***************************************************************************)
(* RoutePlanningTask  (src/src/embedded/tasks/route_planner.py).           *)
(* Lengths are in metres, velocities in units of 0.5 m/s and angles in     *)
(* degrees; the poses and waypoints of the model lie on the x axis, where  *)
(* math.sqrt and math.atan2 are exact in these units.                      *)
(***************************************************************************)
VARIABLES
    waypointQueue,         \* waypoint_queue : queue.Queue of waypoint lists
    routesSent,            \* history: number of set_route calls
    route,                 \* RoutePlanningTask.route
    current_waypoint_idx,  \* RoutePlanningTask.current_waypoint_idx
    rpPc,                  \* Route Planner: position in the iteration
    rpPlan,                \* locals of _update_setpoints: desired_velocity,
                           \* desired_theta, target_x, target_y
    routesCompleted,       \* history: times the index reached len(route)
    targetsReached         \* history: TARGET_REACHED events emitted

rpVars == <<waypointQueue, routesSent, route, current_waypoint_idx, rpPc,
            rpPlan, routesCompleted, targetsReached>>

\* waypoint_threshold, the default of the constructor
WaypointThreshold == 1

\* the waypoint lists the central station sends
RouteInputs == { <<>>, << <<1, 0>> >>, << <<2, 0>>, <<1, 0>> >> }

\* the x coordinates the vehicle takes (y = 0)
TrackInputs == 0..2

\* math.sqrt((target_x - x)**2 + (target_y - y)**2), on a perfect square
Distance(x, y, target_x, target_y) ==
    LET n == (target_x - x) * (target_x - x) + (target_y - y) * (target_y - y)
    IN  CHOOSE r \in 0..n : r * r = n

\* math.atan2(dy, dx) in degrees, on the axes
Atan2(dy, dx) ==
    CASE dy = 0 /\ dx >= 0 -> 0
      [] dy = 0 /\ dx < 0 -> 180
      [] dx = 0 /\ dy > 0 -> 90
      [] dx = 0 /\ dy < 0 -> -90

\* max(0.5, min(max_velocity, distance * 0.5)) with max_velocity = 5.0
DesiredVelocity(distance) == Max(1, Min(10, distance))

\* `distance < self.waypoint_threshold`
WaypointReached(distance) == distance < WaypointThreshold

NoPlan == [desired_velocity |-> 0, desired_theta |-> 0,
           target_x |-> 0, target_y |-> 0]

RoutePlanningInit ==
    /\ waypointQueue = <<>>
    /\ routesSent = 0
    /\ route = <<>>
    /\ current_waypoint_idx = 0
    /\ rpPc = "check_new_route"
    /\ rpPlan = NoPlan
    /\ routesCompleted = 0
    /\ targetsReached = 0

\* set_route(waypoints): put_nowait; a full queue drops the list
SetRoute(waypoints) ==
    /\ routesSent < MaxRoutes
    /\ routesSent' = routesSent + 1
    /\ waypointQueue' = IF Len(waypointQueue) < WaypointQueueSize
                        THEN Append(waypointQueue, waypoints)
                        ELSE waypointQueue
    /\ UNCHANGED <<route, current_waypoint_idx, rpPc, rpPlan,
                   routesCompleted, targetsReached>>

\* _check_new_route: get_nowait takes the oldest list of the queue
RPCheckNewRoute ==
    /\ rpPc = "check_new_route"
    /\ IF waypointQueue # <<>>
       THEN /\ route' = Head(waypointQueue)
            /\ waypointQueue' = Tail(waypointQueue)
            /\ current_waypoint_idx' = 0
            /\ rpPc' = "emit_new_route"
       ELSE /\ rpPc' = "test_mode"
            /\ UNCHANGED <<route, waypointQueue, current_waypoint_idx>>
    /\ UNCHANGED <<routesSent, rpPlan, routesCompleted, targetsReached>>

\* _check_new_route: emit(NEW_ROUTE)
RPEmitNewRoute ==
    /\ rpPc = "emit_new_route"
    /\ EmitEvent("NEW_ROUTE")
    /\ rpPc' = "test_mode"
    /\ UNCHANGED <<waypointQueue, routesSent, route, current_waypoint_idx,
                   rpPlan, routesCompleted, targetsReached>>

\* `if self.route and self.shared_state.is_automatic()`
RPTestMode ==
    /\ rpPc = "test_mode"
    /\ rpPc' = IF route # <<>> /\ IsAutomatic(state)
               THEN "update_setpoints" ELSE "check_new_route"
    /\ UNCHANGED <<waypointQueue, routesSent, route, current_waypoint_idx,
                   rpPlan, routesCompleted, targetsReached>>

\* the setpoints and target for waypoint number i (from 0) seen from (x, y)
PlanFor(i, x, y) ==
    LET target_x == route[i + 1][1]
        target_y == route[i + 1][2]
    IN  [desired_velocity |-> DesiredVelocity(Distance(x, y, target_x, target_y)),
         desired_theta |-> Atan2(target_y - y, target_x - x),
         target_x |-> target_x, target_y |-> target_y]

\* `self.current_waypoint_idx >= len(self.route)`, the test before each read
\* of self.route[self.current_waypoint_idx]
RouteCompleteOffByOne(idx, r) == idx > Len(r)
RouteComplete(idx, r) == idx >= Len(r)

\* self.route[idx] raises IndexError outside -len .. len - 1
RaisesIndexError(idx, r) == idx >= Len(r) \/ idx < -Len(r)

\* _update_setpoints up to its first write: a finished route stops the
\* vehicle; else get_position, the waypoint test and the new setpoints; an
\* IndexError ends the iteration in the `except` of run
RPUpdateSetpoints ==
    /\ rpPc = "update_setpoints"
    /\ IF RouteComplete(current_waypoint_idx, route)
       THEN /\ StateCall(SetSetpoints(0, NoneNum))
            /\ rpPc' = "emit_target_reached"
            /\ UNCHANGED <<current_waypoint_idx, rpPlan, routesCompleted>>
       ELSE IF RaisesIndexError(current_waypoint_idx, route)
       THEN /\ rpPc' = "check_new_route"
            /\ UNCHANGED <<ssVars, current_waypoint_idx, rpPlan, routesCompleted>>
       ELSE LET x == state.position_x
                y == state.position_y
                target == route[current_waypoint_idx + 1]
            IN  /\ UNCHANGED ssVars
                /\ IF WaypointReached(Distance(x, y, target[1], target[2]))
                   THEN /\ current_waypoint_idx' = current_waypoint_idx + 1
                        /\ IF RouteComplete(current_waypoint_idx + 1, route)
                           THEN /\ rpPc' = "check_new_route"
                                /\ routesCompleted' = routesCompleted + 1
                                /\ UNCHANGED rpPlan
                           ELSE IF RaisesIndexError(current_waypoint_idx + 1, route)
                           THEN /\ rpPc' = "check_new_route"
                                /\ UNCHANGED <<rpPlan, routesCompleted>>
                           ELSE /\ rpPc' = "set_setpoints"
                                /\ rpPlan' = PlanFor(current_waypoint_idx + 1, x, y)
                                /\ UNCHANGED routesCompleted
                   ELSE /\ rpPc' = "set_setpoints"
                        /\ rpPlan' = PlanFor(current_waypoint_idx, x, y)
                        /\ UNCHANGED <<current_waypoint_idx, routesCompleted>>
    /\ UNCHANGED <<waypointQueue, routesSent, route, targetsReached>>

\* _update_setpoints on a finished route: emit(TARGET_REACHED), route = []
RPEmitTargetReached ==
    /\ rpPc = "emit_target_reached"
    /\ EmitEvent("TARGET_REACHED")
    /\ targetsReached' = targetsReached + 1
    /\ route' = <<>>
    /\ rpPc' = "check_new_route"
    /\ UNCHANGED <<waypointQueue, routesSent, current_waypoint_idx, rpPlan,
                   routesCompleted>>

\* set_setpoints(desired_velocity, desired_theta)
RPSetSetpoints ==
    /\ rpPc = "set_setpoints"
    /\ StateCall(SetSetpoints(rpPlan.desired_velocity, rpPlan.desired_theta))
    /\ rpPc' = "set_target"
    /\ UNCHANGED <<waypointQueue, routesSent, route, current_waypoint_idx,
                   rpPlan, routesCompleted, targetsReached>>

\* set_target(target_x, target_y), the last call of the iteration
RPSetTarget ==
    /\ rpPc = "set_target"
    /\ StateCall(SetTarget(rpPlan.target_x, rpPlan.target_y))
    /\ rpPc' = "check_new_route"
    /\ rpPlan' = NoPlan
    /\ UNCHANGED <<waypointQueue, routesSent, route, current_waypoint_idx,
                   routesCompleted, targetsReached>>

(***************************************************************************)
(* The callers of set_mode and set_position and the emitter of the         *)
(* emergency event, as the environment of one task                         *)
(***************************************************************************)
VARIABLES
    modeChanges,     \* history: number of set_mode calls that changed the mode
    navSeenChanges,  \* history: modeChanges at Navigation Control's snapshot
    enabledAt        \* history: navSeenChanges at the last enable of the PIDs

envVars == <<modeChanges, navSeenChanges, enabledAt>>

EnvironmentInit ==
    /\ modeChanges = 0
    /\ navSeenChanges = 0
    /\ enabledAt = 0

\* set_mode with the other mode
ChangeMode ==
    /\ modeChanges < MaxModeChanges
    /\ modeChanges' = modeChanges + 1
    /\ StateCall(SetMode(IF state.mode = "MANUAL_LOCAL"
                         THEN "AUTOMATIC_REMOTE" ELSE "MANUAL_LOCAL"))
    /\ UNCHANGED <<navSeenChanges, enabledAt>>

\* set_position(x, 0, 0, 0): the vehicle is at x on the track
MoveVehicle(x) ==
    /\ x # state.position_x
    /\ StateCall(SetPosition(x, 0, 0, 0))

\* emit(t) by some task, as one of a bounded number of emissions
EmitSome(t) ==
    /\ emitted < MaxEmits
    /\ EmitEvent(t)

(***************************************************************************)
(***************************************************************************)
(* The run loops of the periodic tasks                                     *)
(* `while not self._stop_event.is_set(): <body>; time.sleep(...)` in       *)
(* sensor_processing.py, fault_monitoring.py, navigation_control.py,       *)
(* route_planner.py, collision_avoidance.py, data_collector.py,            *)
(* local_interface.py and mine_simulator.py                                *)
(***************************************************************************)
VARIABLES
    stopEvent,   \* per task: its own _stop_event (threading.Event) is set
    loopPc       \* per task: "test" (at the while condition, the sleep of
                 \* the last iteration done), "body" (inside the iteration),
                 \* "finished" (after the loop), "died" (run left by an
                 \* exception)

loopVars == <<stopEvent, loopPc>>

LoopTasks ==
    {"SensorProcessing", "FaultMonitoring", "NavigationControl", "RoutePlanning",
     "CollisionAvoidance", "DataCollector", "LocalInterface", "MineSimulator"}

\* whether the body of the task's loop is inside `try: ... except Exception`
HasTryExcept(t) == t # "LocalInterface"

\* _stop_event.is_set() of task t
IsSetNever(t) == FALSE
IsSet(t) == stopEvent[t]

RunLoopsInit ==
    /\ stopEvent = [t \in LoopTasks |-> FALSE]
    /\ loopPc = [t \in LoopTasks |-> "test"]

\* stop() of task t
Stop(t) ==
    /\ ~stopEvent[t]
    /\ stopEvent' = [stopEvent EXCEPT ![t] = TRUE]
    /\ UNCHANGED loopPc

\* the while condition
LoopTest(t) ==
    /\ loopPc[t] = "test"
    /\ loopPc' = [loopPc EXCEPT ![t] = IF IsSet(t) THEN "finished" ELSE "body"]
    /\ UNCHANGED stopEvent

\* the body runs to its end, then the sleep
LoopBody(t) ==
    /\ loopPc[t] = "body"
    /\ loopPc' = [loopPc EXCEPT ![t] = "test"]
    /\ UNCHANGED stopEvent

\* a statement of the body raises an Exception: the except clause prints it
\* and the loop goes on to the sleep; without a try the exception leaves run
LoopRaise(t) ==
    /\ loopPc[t] = "body"
    /\ loopPc' = [loopPc EXCEPT ![t] = IF HasTryExcept(t) THEN "test" ELSE "died"]
    /\ UNCHANGED stopEvent

(***************************************************************************)
(* The mutexes: SharedState._lock (shared_state.py), CircularBuffer._lock  *)
(* (circular_buffer.py), EventManager._lock with its condition             *)
(* (event_manager.py).  Every method of the three classes is one           *)
(* `with self._lock:` block whose body uses only the object's own fields;  *)
(* the tasks call the methods from their loop bodies and sleep at the end  *)
(* of an iteration.                                                        *)
(***************************************************************************)
VARIABLES
    lockOwner,   \* per mutex: "free" or the thread inside its `with` block
    lkPc,        \* per thread: "outside" (in task code), "acquire" (at the
                 \* `with`, waiting for the mutex), "inside" (in the block),
                 \* "cond_wait" (suspended in _condition.wait), "sleep"
    lkLock       \* per thread: the mutex of the method it is calling

Locks == {"state", "buffer", "events"}

\* where a method of the three classes is called from: the code of a task,
\* never the body of a `with` block
CalledFromAnywhere(p) == lkPc[p] \in {"outside", "inside"}
CalledFromTask(p) == lkPc[p] = "outside"

LockingInit ==
    /\ lockOwner = [l \in Locks |-> "free"]
    /\ lkPc = [p \in Threads |-> "outside"]
    /\ lkLock = [p \in Threads |-> "none"]

\* a thread calls a method and reaches its `with self._lock`
CallMethod(p, l) ==
    /\ CalledFromTask(p)
    /\ lkPc' = [lkPc EXCEPT ![p] = "acquire"]
    /\ lkLock' = [lkLock EXCEPT ![p] = l]
    /\ UNCHANGED lockOwner

\* the mutex is free: the thread enters the block
EnterWith(p) ==
    /\ lkPc[p] = "acquire"
    /\ lockOwner[lkLock[p]] = "free"
    /\ lockOwner' = [lockOwner EXCEPT ![lkLock[p]] = p]
    /\ lkPc' = [lkPc EXCEPT ![p] = "inside"]
    /\ UNCHANGED lkLock

\* the body is done: the thread leaves the block and the method returns
LeaveWith(p) ==
    /\ lkPc[p] = "inside"
    /\ lockOwner' = [lockOwner EXCEPT ![lkLock[p]] = "free"]
    /\ lkPc' = [lkPc EXCEPT ![p] = "outside"]
    /\ lkLock' = [lkLock EXCEPT ![p] = "none"]

\* wait_for_event: self._condition.wait(timeout) releases the mutex and
\* suspends the thread
ConditionWait(p) ==
    /\ lkPc[p] = "inside"
    /\ lkLock[p] = "events"
    /\ lockOwner' = [lockOwner EXCEPT !["events"] = "free"]
    /\ lkPc' = [lkPc EXCEPT ![p] = "cond_wait"]
    /\ UNCHANGED lkLock

\* notify_all or the timeout: the thread takes the mutex again before wait
\* returns
ConditionWake(p) ==
    /\ lkPc[p] = "cond_wait"
    /\ lkPc' = [lkPc EXCEPT ![p] = "acquire"]
    /\ UNCHANGED <<lockOwner, lkLock>>

\* time.sleep at the end of an iteration, and its end
TaskSleep(p) ==
    /\ lkPc[p] = "outside"
    /\ lkPc' = [lkPc EXCEPT ![p] = "sleep"]
    /\ UNCHANGED <<lockOwner, lkLock>>

TaskWake(p) ==
    /\ lkPc[p] = "sleep"
    /\ lkPc' = [lkPc EXCEPT ![p] = "outside"]
    /\ UNCHANGED <<lockOwner, lkLock>>

(***************************************************************************)
(* CollisionAvoidanceTask  (src/src/embedded/tasks/collision_avoidance.py) *)
(* Positions are in metres relative to the own pose of the scenarios,      *)
(* (50, 37.5): the task uses only differences of coordinates.  Angles are  *)
(* in degrees, velocity setpoints in units of 0.5 m/s.                     *)
(***************************************************************************)
VARIABLES
    caPc,               \* "get_state" (run), "check_collisions", "set_setpoints"
    avoidance_active,   \* CollisionAvoidanceTask.avoidance_active
    closest_truck_id,   \* CollisionAvoidanceTask.closest_truck_id (0 for None)
    caWrite,            \* the arguments of the set_setpoints call to come
    caSaved,            \* history: the setpoints seen by the check that
                        \* made avoidance active
    otherTrucks         \* the other trucks: truck id -> <<x, y>>

\* safety_distance and warning_distance
SafetyDistance == 5
WarningDistance == 10

\* the positions of the other trucks: 3, 8 and 20 m ahead, 5 m away to the
\* left inside the cone, 8 m to the side
PeerInputs == {<<3, 0>>, <<8, 0>>, <<20, 0>>, <<4, 3>>, <<0, 8>>}

CollisionAvoidanceInit ==
    /\ caPc = "get_state"
    /\ avoidance_active = FALSE
    /\ closest_truck_id = 0
    /\ caWrite = <<>>
    /\ caSaved = <<>>
    /\ otherTrucks = << >>

\* another truck appears or moves
UpdatePeer(id, pos) ==
    /\ IF id \in DOMAIN otherTrucks THEN otherTrucks[id] # pos ELSE TRUE
    /\ otherTrucks' = [j \in DOMAIN otherTrucks \cup {id} |->
                          IF j = id THEN pos ELSE otherTrucks[j]]
    /\ UNCHANGED <<caPc, avoidance_active, closest_truck_id, caWrite, caSaved>>

\* another truck leaves
RemovePeer(id) ==
    /\ id \in DOMAIN otherTrucks
    /\ otherTrucks' = [j \in DOMAIN otherTrucks \ {id} |-> otherTrucks[j]]
    /\ UNCHANGED <<caPc, avoidance_active, closest_truck_id, caWrite, caSaved>>

\* the vector (dx, dy) seen from a vehicle heading theta (a multiple of 90
\* degrees): its first component is ahead, its second to the left; the
\* angle of this vector is angle_to_other - my_theta
Bearing(theta, dx, dy) ==
    CASE theta = 0 -> <<dx, dy>>
      [] theta = 90 -> <<dy, -dx>>
      [] theta = 180 -> <<-dx, -dy>>
      [] theta = -90 -> <<-dy, dx>>

\* _is_in_trajectory: abs(angle_diff) < pi/4 and distance < 2 * warning_distance
InTrajectory(x, y, theta, ox, oy, distance) ==
    LET b == Bearing(theta, ox - x, oy - y)
        in_cone == IF ox = x /\ oy = y THEN theta = 0
                   ELSE b[1] > 0 /\ b[2] < b[1] /\ -b[2] < b[1]
        in_range == distance < WarningDistance * 2
    IN  in_cone /\ in_range

\* _calculate_avoidance_angle: cross = sin(angle_diff); my_theta - pi/6 when
\* cross > 0, else my_theta + pi/6 (for a truck in the cone)
AvoidanceAngle(x, y, theta, ox, oy) ==
    LET cross == Bearing(theta, ox - x, oy - y)[2]
    IN  IF cross > 0 THEN theta - 30 ELSE theta + 30

\* current_setpoint * max(0.3, min(1.0, (d - safety) / (warning - safety))),
\* the factor in tenths
ReducedVelocity(current_setpoint, min_distance) ==
    LET reduction_factor ==
           Max(3, Min(10, ((min_distance - SafetyDistance) * 10)
                             \div (WarningDistance - SafetyDistance)))
    IN  (current_setpoint * reduction_factor) \div 10

\* the loop of _check_collisions: the nearest truck in the trajectory, the
\* first of the dictionary among equals (0 when there is none)
ClosestTruck(st, trucks) ==
    LET dist(id) == Distance(st.position_x, st.position_y, trucks[id][1], trucks[id][2])
        cand == {id \in DOMAIN trucks :
                    InTrajectory(st.position_x, st.position_y, st.theta,
                                 trucks[id][1], trucks[id][2], dist(id))}
    IN  IF cand = {} THEN [id |-> 0, distance |-> 0]
        ELSE LET c == CHOOSE id \in cand :
                         \A j \in cand : dist(id) < dist(j) \/ (dist(id) = dist(j) /\ id <= j)
             IN  [id |-> c, distance |-> dist(c)]

\* run up to the branch on the mode: get_state; in manual mode avoidance is
\* switched off
CASnapshot ==
    /\ caPc = "get_state"
    /\ IF IsAutomatic(state)
       THEN /\ caPc' = "check_collisions"
            /\ UNCHANGED avoidance_active
       ELSE /\ caPc' = "get_state"
            /\ avoidance_active' = FALSE
    /\ UNCHANGED <<closest_truck_id, caWrite, caSaved, otherTrucks>>

\* _check_collisions with the SharedState of shared_state.py, which has no
\* method get_other_trucks_positions: line 59 raises AttributeError, run
\* catches and prints it and the iteration ends
CACheckRaises ==
    /\ caPc = "check_collisions"
    /\ caPc' = "get_state"
    /\ UNCHANGED <<avoidance_active, closest_truck_id, caWrite, caSaved, otherTrucks>>

\* _check_collisions with a SharedState whose get_other_trucks_positions
\* returns the other trucks: get_state, the closest truck in the trajectory
\* and the branch on its distance, up to the set_setpoints call
CACheckCollisions ==
    /\ caPc = "check_collisions"
    /\ LET closest == ClosestTruck(state, otherTrucks)
       IN  IF DOMAIN otherTrucks = {} \/ closest.id = 0
                \/ closest.distance >= WarningDistance
           THEN /\ avoidance_active' = FALSE
                /\ closest_truck_id' = IF avoidance_active THEN 0 ELSE closest_truck_id
                /\ caWrite' = <<>>
                /\ caPc' = "get_state"
                /\ UNCHANGED caSaved
           ELSE /\ avoidance_active' = TRUE
                /\ closest_truck_id' = closest.id
                /\ caWrite' =
                      IF closest.distance < SafetyDistance
                      THEN <<0, NoneNum>>
                      ELSE <<ReducedVelocity(state.velocity_setpoint, closest.distance),
                             AvoidanceAngle(state.position_x, state.position_y, state.theta,
                                            otherTrucks[closest.id][1],
                                            otherTrucks[closest.id][2])>>
                /\ caPc' = "set_setpoints"
                /\ caSaved' = IF avoidance_active THEN caSaved
                              ELSE <<state.velocity_setpoint, state.angular_setpoint>>
    /\ UNCHANGED otherTrucks

\* set_setpoints(0.0, None) or set_setpoints(reduced_velocity, avoidance_angle)
CASetSetpoints ==
    /\ caPc = "set_setpoints"
    /\ StateCall(SetSetpoints(caWrite[1], caWrite[2]))
    /\ caPc' = "get_state"
    /\ caWrite' = <<>>
    /\ UNCHANGED <<avoidance_active, closest_truck_id, caSaved, otherTrucks>>

\* the variables of the sections above that the specifications below leave
\* alone
caVars == <<caPc, avoidance_active, closest_truck_id, caWrite, caSaved, otherTrucks>>
(***************************************************************************)
(* DataCollectorTask.log_queue and get_latest_logs  (src/src/embedded/     *)
(* tasks/data_collector.py).  log_queue = queue.Queue() has no maxsize, so *)
(* put_nowait never raises queue.Full.                                     *)
(***************************************************************************)
VARIABLES
    log_queue,      \* DataCollectorTask.log_queue, oldest entry first
    logsProduced,   \* history: the entries run has put, oldest first
    logsRet         \* the last call of get_latest_logs: n, the list returned
                    \* and the entries produced when it ran

lqVars == <<log_queue, logsProduced, logsRet>>

\* the arguments of get_latest_logs
LogCounts == 0..(MaxLogs + 1)

LogQueueInit ==
    /\ log_queue = <<>>
    /\ logsProduced = <<>>
    /\ logsRet = [calls |-> 0, n |-> 0, value |-> <<>>, seen |-> <<>>]

\* queue.Queue.get_nowait: the oldest entry leaves the queue
GetNowait(q) == [item |-> Head(q), rest |-> Tail(q)]

\* the loop of get_latest_logs: min(n, qsize) times get_nowait and append
RECURSIVE TakeLogs(_, _)
TakeLogs(q, k) ==
    IF k <= 0 \/ q = <<>> THEN [logs |-> <<>>, rest |-> q]
    ELSE LET later == TakeLogs(GetNowait(q).rest, k - 1)
         IN  [logs |-> <<GetNowait(q).item>> \o later.logs, rest |-> later.rest]

\* run, step 5: self.log_queue.put_nowait(log_entry), in the same iteration
\* as _write_log
DCPutLog ==
    /\ Len(logsProduced) < MaxLogs
    /\ LET log_entry == [id |-> Len(logsProduced) + 1,
                         event_description |-> dcDescription]
       IN  /\ log_queue' = Append(log_queue, log_entry)
           /\ logsProduced' = Append(logsProduced, log_entry)
    /\ UNCHANGED logsRet

\* get_latest_logs(n), called by the Local Interface thread
GetLatestLogs(n) ==
    /\ logsRet.calls < MaxReads
    /\ LET taken == TakeLogs(log_queue, Min(n, Len(log_queue)))
       IN  /\ log_queue' = taken.rest
           /\ logsRet' = [calls |-> logsRet.calls + 1, n |-> n,
                          value |-> taken.logs, seen |-> logsProduced]
    /\ UNCHANGED logsProduced

(***************************************************************************)
(* MineManagementGUI  (src/src/central/mine_management.py), running with   *)
(* the MQTT client available.  Tk calls the button handlers and the client *)
(* calls _on_mqtt_message; the widgets and last_update carry no decision   *)
(* and are left out.                                                       *)
(***************************************************************************)
VARIABLES
    trucks,             \* self.trucks: truck id -> the dict of what it reported
    selected_truck_id,  \* self.selected_truck_id, NoneNum for None
    waypoints,          \* self.waypoints, each <<x, y>>
    stationCall         \* the last button handler that ran: its number, the
                        \* button, and the message it published if sent

stVars == <<trucks, selected_truck_id, waypoints, stationCall>>

\* the limits of the map in _add_waypoint
MapWidth == 100
MapHeight == 75

TruckIds == 1..MaxTrucks

\* payloads on mine/truck/{id}/state (the snapshot of the truck's state) and
\* on mine/truck/{id}/position
StatePayloads ==
    { [x |-> 10, y |-> 10, electrical_fault |-> e, hydraulic_fault |-> h,
       emergency_stop |-> s, temperature |-> t] :
          <<e, h, s, t>> \in { <<FALSE, FALSE, FALSE, 30>>,
                               <<TRUE, FALSE, FALSE, 30>>,
                               <<FALSE, TRUE, FALSE, 30>>,
                               <<FALSE, FALSE, TRUE, 30>>,
                               <<FALSE, FALSE, FALSE, 125>> } }
PositionPayloads == { [x |-> 10, y |-> 10] }

\* the texts typed in the waypoint entries, character by character
XTexts == { <<"1", "0", "0">>, <<"1", "0", "1">>, <<"-", "1">>,
            <<"n", "a", "n">>, <<"a", "b", "c">> }
YTexts == { <<"7", "5">>, <<"7", "6">> }

\* the buttons and the command each one publishes
Buttons ==
    {"auto", "manual", "emergency", "reset_fault", "forward", "backward",
     "left", "right", "accelerate", "brake", "route"}
ButtonCommand(b) ==
    CASE b = "auto" -> "ENABLE_AUTOMATIC"
      [] b = "manual" -> "DISABLE_AUTOMATIC"
      [] b = "emergency" -> "EMERGENCY_STOP"
      [] b = "reset_fault" -> "RESET_FAULT"
      [] b = "forward" -> "MOVE_FORWARD"
      [] b = "backward" -> "MOVE_BACKWARD"
      [] b = "left" -> "TURN_LEFT"
      [] b = "right" -> "TURN_RIGHT"
      [] b = "accelerate" -> "ACCELERATE"
      [] b = "brake" -> "BRAKE"
      [] b = "route" -> "route"
\* the handlers that call _check_truck_has_fault before publishing
ChecksFault(b) == b \notin {"emergency", "reset_fault"}

NoDict == [k \in {} |-> FALSE]

StationInit ==
    /\ trucks = [t \in {} |-> NoDict]
    /\ selected_truck_id = NoneNum
    /\ waypoints = <<>>
    /\ stationCall = [seq |-> 0, button |-> "", sent |-> FALSE,
                      truck_id |-> NoneNum, waypoints |-> <<>>]

\* dict.get(key, default)
DictGet(data, key, default) == IF key \in DOMAIN data THEN data[key] ELSE default

\* dict.update(payload)
DictUpdate(data, payload) ==
    [k \in DOMAIN data \cup DOMAIN payload |->
        IF k \in DOMAIN payload THEN payload[k] ELSE data[k]]

\* _on_mqtt_message: a truck not seen before gets an empty dict, then the
\* payload of either topic updates the dict
OnMqttMessage(truck_id, payload) ==
    /\ LET known == IF truck_id \in DOMAIN trucks THEN trucks[truck_id] ELSE NoDict
       IN  trucks' = [t \in DOMAIN trucks \cup {truck_id} |->
                         IF t = truck_id THEN DictUpdate(known, payload)
                         ELSE trucks[t]]
    /\ UNCHANGED <<selected_truck_id, waypoints, stationCall>>

\* _on_truck_select: the list box holds one line per key of self.trucks
OnTruckSelect(truck_id) ==
    /\ truck_id \in DOMAIN trucks
    /\ selected_truck_id' = truck_id
    /\ UNCHANGED <<trucks, waypoints, stationCall>>

\* float(text): digits with an optional sign give the number, "nan" gives
\* NaN, any other text raises ValueError
DigitChars == <<"0", "1", "2", "3", "4", "5", "6", "7", "8", "9">>
IsDigit(c) == \E i \in DOMAIN DigitChars : DigitChars[i] = c
DigitValue(c) == (CHOOSE i \in DOMAIN DigitChars : DigitChars[i] = c) - 1
RECURSIVE DigitsValue(_)
DigitsValue(s) ==
    IF s = <<>> THEN 0
    ELSE 10 * DigitsValue(SubSeq(s, 1, Len(s) - 1)) + DigitValue(s[Len(s)])
AllDigits(s) == s # <<>> /\ \A i \in DOMAIN s : IsDigit(s[i])
Float(text) ==
    IF AllDigits(text)
    THEN [error |-> FALSE, nan |-> FALSE, value |-> DigitsValue(text)]
    ELSE IF text # <<>> /\ text[1] = "-" /\ AllDigits(Tail(text))
    THEN [error |-> FALSE, nan |-> FALSE, value |-> 0 - DigitsValue(Tail(text))]
    ELSE IF text = <<"n", "a", "n">>
    THEN [error |-> FALSE, nan |-> TRUE, value |-> 0]
    ELSE [error |-> TRUE, nan |-> FALSE, value |-> 0]

\* a test of the lower limit only
NoUpperLimit(f, limit) == ~f.nan /\ 0 <= f.value
\* `0 <= v <= limit` on floats: every comparison with NaN is false
WithinLimit(f, limit) == ~f.nan /\ 0 <= f.value /\ f.value <= limit

\* _add_waypoint
AddWaypoint(xText, yText) ==
    /\ Len(waypoints) < MaxWaypoints
    /\ LET x == Float(xText)
           y == Float(yText)
       IN  IF x.error \/ y.error
           THEN UNCHANGED waypoints
           ELSE IF ~(WithinLimit(x, MapWidth) /\ WithinLimit(y, MapHeight))
           THEN UNCHANGED waypoints
           ELSE waypoints' = Append(waypoints, <<x.value, y.value>>)
    /\ UNCHANGED <<trucks, selected_truck_id, stationCall>>

\* _remove_waypoint: index is the selected line of the list box, which
\* holds one line per waypoint
RemoveWaypoint(index) ==
    /\ index \in 0..(Len(waypoints) - 1)
    /\ waypoints' = SubSeq(waypoints, 1, index) \o
                    SubSeq(waypoints, index + 2, Len(waypoints))
    /\ UNCHANGED <<trucks, selected_truck_id, stationCall>>

\* _clear_waypoints
ClearWaypoints ==
    /\ waypoints # <<>>
    /\ waypoints' = <<>>
    /\ UNCHANGED <<trucks, selected_truck_id, stationCall>>

\* _check_truck_has_fault
CheckTruckHasFault(truck_id) ==
    IF truck_id \in DOMAIN trucks
    THEN \/ DictGet(trucks[truck_id], "electrical_fault", FALSE)
         \/ DictGet(trucks[truck_id], "hydraulic_fault", FALSE)
         \/ DictGet(trucks[truck_id], "emergency_stop", FALSE)
    ELSE FALSE

\* `if not truck_id`: None and 0 are both false
NotTruckId(truck_id) == truck_id = NoneNum \/ truck_id = 0

\* whether the handler of button b reaches its publish call
Publishes(b) ==
    /\ ~NotTruckId(selected_truck_id)
    /\ ChecksFault(b) => ~CheckTruckHasFault(selected_truck_id)
    /\ b = "route" => waypoints # <<>>

\* _send_auto_command, _send_manual_command, _send_emergency,
\* _send_reset_fault, _send_forward, _send_backward, _send_left, _send_right,
\* _send_accelerate, _send_brake and _send_route
SendButton(b) ==
    /\ stationCall.seq < MaxClicks
    /\ stationCall' =
          [seq |-> stationCall.seq + 1, button |-> b, sent |-> Publishes(b),
           truck_id |-> selected_truck_id,
           waypoints |-> IF b = "route" /\ Publishes(b) THEN waypoints ELSE <<>>]
    /\ UNCHANGED <<trucks, selected_truck_id, waypoints>>

extVars == <<loopVars, lockOwner, lkPc, lkLock, caVars, lqVars, stVars>>

(* Specifications                                                          *)
(***************************************************************************)
vars == <<evVars, bufVars, ssVars, taskVars, dcVars, fmVars, rpVars, envVars, extVars>>

Init ==
    /\ EventManagerInit /\ CircularBufferInit /\ SharedStateInit /\ TasksInit
    /\ DataCollectorInit /\ FaultMonitoringInit /\ RoutePlanningInit
    /\ EnvironmentInit /\ RunLoopsInit /\ LockingInit
    /\ CollisionAvoidanceInit
    /\ LogQueueInit
    /\ StationInit

\* the event channel used by concurrent threads
InitEvt == Init
NextEvt ==
    EventManagerNext
    /\ UNCHANGED <<bufVars, ssVars, taskVars, dcVars, fmVars, rpVars, envVars, extVars>>
SpecEvt == InitEvt /\ [][NextEvt]_vars

\* the circular buffer
InitBuf == Init
NextBuf ==
    CircularBufferNext
    /\ UNCHANGED <<evVars, ssVars, taskVars, dcVars, fmVars, rpVars, envVars, extVars>>
SpecBuf == InitBuf /\ [][NextBuf]_vars

\* the shared state used by concurrent threads, field by field
InitState == Init
NextState ==
    SharedStateNext
    /\ UNCHANGED <<evVars, bufVars, taskVars, dcVars, fmVars, rpVars, envVars, extVars>>
SpecState == InitState /\ [][NextState]_vars

\* operator, Command Logic and Navigation Control running concurrently
InitCtl == Init
NextCtl ==
    \/ (\E c \in CommandType : SendCommand(c))
          /\ UNCHANGED <<dcVars, fmVars, rpVars, envVars, extVars>>
    \/ RaiseElectricalFault /\ UNCHANGED <<dcVars, fmVars, rpVars, envVars, extVars>>
    \/ CLTakeCommand /\ UNCHANGED <<dcVars, fmVars, rpVars, envVars, extVars>>
    \/ CLTakeFaultEvent /\ UNCHANGED <<dcVars, fmVars, rpVars, envVars, extVars>>
    \/ CLDecide /\ UNCHANGED <<dcVars, fmVars, rpVars, envVars, extVars>>
    \/ CLStep /\ UNCHANGED <<dcVars, fmVars, rpVars, envVars, extVars>>
    \/ NavSnapshot /\ UNCHANGED <<dcVars, fmVars, rpVars, envVars, extVars>>
    \/ NavControl /\ UNCHANGED <<dcVars, fmVars, rpVars, envVars, extVars>>
    \/ NavCheckFaultEvents /\ UNCHANGED <<dcVars, fmVars, rpVars, envVars, extVars>>
    \/ NavZeroActuators /\ UNCHANGED <<dcVars, fmVars, rpVars, envVars, extVars>>
SpecCtl == InitCtl /\ [][NextCtl]_vars

\* the operator's keys and Command Logic, with fault events arriving
NextReset ==
    \/ (\E key \in {"A", "M", "W", " ", "R"} : PressKey(key))
          /\ UNCHANGED <<dcVars, fmVars, rpVars, envVars, extVars>>
    \/ RaiseElectricalFault /\ UNCHANGED <<dcVars, fmVars, rpVars, envVars, extVars>>
    \/ CLTakeCommand /\ UNCHANGED <<dcVars, fmVars, rpVars, envVars, extVars>>
    \/ CLTakeFaultEvent /\ UNCHANGED <<dcVars, fmVars, rpVars, envVars, extVars>>
    \/ CLDecide /\ UNCHANGED <<dcVars, fmVars, rpVars, envVars, extVars>>
    \/ CLStep /\ UNCHANGED <<dcVars, fmVars, rpVars, envVars, extVars>>
SpecReset == Init /\ [][NextReset]_vars

\* the operator's keys, Command Logic and Navigation Control
NextDrive ==
    \/ (\E key \in {"A", "M", " ", "R"} : PressKey(key))
          /\ UNCHANGED <<dcVars, fmVars, rpVars, envVars, extVars>>
    \/ CLTakeCommand /\ UNCHANGED <<dcVars, fmVars, rpVars, envVars, extVars>>
    \/ CLDecide /\ UNCHANGED <<dcVars, fmVars, rpVars, envVars, extVars>>
    \/ CLStep /\ UNCHANGED <<dcVars, fmVars, rpVars, envVars, extVars>>
    \/ NavSnapshot /\ UNCHANGED <<dcVars, fmVars, rpVars, envVars, extVars>>
    \/ NavControl /\ UNCHANGED <<dcVars, fmVars, rpVars, envVars, extVars>>
    \/ NavCheckFaultEvents /\ UNCHANGED <<dcVars, fmVars, rpVars, envVars, extVars>>
    \/ NavZeroActuators /\ UNCHANGED <<dcVars, fmVars, rpVars, envVars, extVars>>
SpecDrive == Init /\ [][NextDrive]_vars

\* operator, Command Logic and Navigation Control beside Data Collector,
\* which polls the same event queues
NextStop ==
    \/ (\E c \in CommandType : SendCommand(c))
          /\ UNCHANGED <<dcVars, fmVars, rpVars, envVars, extVars>>
    \/ CLTakeCommand /\ UNCHANGED <<dcVars, fmVars, rpVars, envVars, extVars>>
    \/ CLDecide /\ UNCHANGED <<dcVars, fmVars, rpVars, envVars, extVars>>
    \/ CLStep /\ UNCHANGED <<dcVars, fmVars, rpVars, envVars, extVars>>
    \/ NavSnapshot /\ UNCHANGED <<dcVars, fmVars, rpVars, envVars, extVars>>
    \/ NavControl /\ UNCHANGED <<dcVars, fmVars, rpVars, envVars, extVars>>
    \/ NavCheckFaultEvents /\ UNCHANGED <<dcVars, fmVars, rpVars, envVars, extVars>>
    \/ NavZeroActuators /\ UNCHANGED <<dcVars, fmVars, rpVars, envVars, extVars>>
    \/ DCSnapshot
          /\ UNCHANGED <<evVars, bufVars, ssVars, taskVars, fmVars, rpVars, envVars, extVars>>
    \/ DCCheckEvents
          /\ UNCHANGED <<bufVars, ssVars, taskVars, fmVars, rpVars, envVars, extVars>>
    \/ DCWriteLog
          /\ UNCHANGED <<evVars, bufVars, ssVars, taskVars, fmVars, rpVars, envVars, extVars>>
SpecStop == Init /\ [][NextStop]_vars

\* Navigation Control and Data Collector with mode changes and emergency
\* events at any time
NextNav ==
    \/ ChangeMode
          /\ UNCHANGED <<evVars, bufVars, taskVars, dcVars, fmVars, rpVars, extVars>>
    \/ EmitSome("EMERGENCY_STOP")
          /\ UNCHANGED <<bufVars, ssVars, taskVars, dcVars, fmVars, rpVars, envVars, extVars>>
    \/ NavSnapshot
          /\ navSeenChanges' = modeChanges
          /\ UNCHANGED <<modeChanges, enabledAt, dcVars, fmVars, rpVars, extVars>>
    \/ NavControl
          /\ enabledAt' = (IF IsAutomatic(navSnap) /\ ~prevModeAutomatic
                           THEN navSeenChanges ELSE enabledAt)
          /\ UNCHANGED <<modeChanges, navSeenChanges, dcVars, fmVars, rpVars, extVars>>
    \/ NavCheckFaultEvents /\ UNCHANGED <<dcVars, fmVars, rpVars, envVars, extVars>>
    \/ NavZeroActuators /\ UNCHANGED <<dcVars, fmVars, rpVars, envVars, extVars>>
    \/ DCSnapshot
          /\ UNCHANGED <<evVars, bufVars, ssVars, taskVars, fmVars, rpVars, envVars, extVars>>
    \/ DCCheckEvents
          /\ UNCHANGED <<bufVars, ssVars, taskVars, fmVars, rpVars, envVars, extVars>>
    \/ DCWriteLog
          /\ UNCHANGED <<evVars, bufVars, ssVars, taskVars, fmVars, rpVars, envVars, extVars>>
SpecNav == Init /\ [][NextNav]_vars

\* Route Planner with routes, mode changes and vehicle moves at any time
NextRoute ==
    \/ (\E w \in RouteInputs : SetRoute(w))
          /\ UNCHANGED <<evVars, bufVars, ssVars, taskVars, dcVars, fmVars, envVars, extVars>>
    \/ ChangeMode
          /\ UNCHANGED <<evVars, bufVars, taskVars, dcVars, fmVars, rpVars, extVars>>
    \/ (\E x \in TrackInputs : MoveVehicle(x))
          /\ UNCHANGED <<evVars, bufVars, taskVars, dcVars, fmVars, rpVars, envVars, extVars>>
    \/ RPCheckNewRoute
          /\ UNCHANGED <<evVars, bufVars, ssVars, taskVars, dcVars, fmVars, envVars, extVars>>
    \/ RPEmitNewRoute
          /\ UNCHANGED <<bufVars, ssVars, taskVars, dcVars, fmVars, envVars, extVars>>
    \/ RPTestMode
          /\ UNCHANGED <<evVars, bufVars, ssVars, taskVars, dcVars, fmVars, envVars, extVars>>
    \/ RPUpdateSetpoints
          /\ UNCHANGED <<evVars, bufVars, taskVars, dcVars, fmVars, envVars, extVars>>
    \/ RPEmitTargetReached
          /\ UNCHANGED <<bufVars, ssVars, taskVars, dcVars, fmVars, envVars, extVars>>
    \/ RPSetSetpoints
          /\ UNCHANGED <<evVars, bufVars, taskVars, dcVars, fmVars, envVars, extVars>>
    \/ RPSetTarget
          /\ UNCHANGED <<evVars, bufVars, taskVars, dcVars, fmVars, envVars, extVars>>
SpecRoute == Init /\ [][NextRoute]_vars

\* Fault Monitoring with any sensor data in each iteration
NextFault ==
    \/ FMReadSensors
          /\ UNCHANGED <<evVars, bufVars, ssVars, taskVars, dcVars, rpVars, envVars, extVars>>
    \/ FMCheckChannel
          /\ UNCHANGED <<bufVars, ssVars, taskVars, dcVars, rpVars, envVars, extVars>>
SpecFault == Init /\ [][NextFault]_vars

\* Data Collector with the events it logs emitted at any time and a log
\* file that fails and recovers
NextLog ==
    \/ SinkFail
          /\ UNCHANGED <<evVars, bufVars, ssVars, taskVars, fmVars, rpVars, envVars, extVars>>
    \/ SinkRecover
          /\ UNCHANGED <<evVars, bufVars, ssVars, taskVars, fmVars, rpVars, envVars, extVars>>
    \/ (\E k \in DOMAIN LoggedEvents : EmitSome(LoggedEvents[k]))
          /\ UNCHANGED <<bufVars, ssVars, taskVars, dcVars, fmVars, rpVars, envVars, extVars>>
    \/ DCSnapshot
          /\ UNCHANGED <<evVars, bufVars, ssVars, taskVars, fmVars, rpVars, envVars, extVars>>
    \/ DCCheckEvents
          /\ UNCHANGED <<bufVars, ssVars, taskVars, fmVars, rpVars, envVars, extVars>>
    \/ DCWriteLog
          /\ UNCHANGED <<evVars, bufVars, ssVars, taskVars, fmVars, rpVars, envVars, extVars>>
SpecLog == Init /\ [][NextLog]_vars

\* Data Collector putting its entries in log_queue while the Local Interface
\* calls get_latest_logs
NextLogQueue ==
    \/ (\E k \in DOMAIN LoggedEvents : EmitSome(LoggedEvents[k]))
          /\ UNCHANGED <<bufVars, ssVars, taskVars, dcVars, fmVars, rpVars, envVars,
                         loopVars, lockOwner, lkPc, lkLock, caVars, lqVars, stVars>>
    \/ DCSnapshot
          /\ UNCHANGED <<evVars, bufVars, ssVars, taskVars, fmVars, rpVars, envVars, extVars>>
    \/ DCCheckEvents
          /\ UNCHANGED <<bufVars, ssVars, taskVars, fmVars, rpVars, envVars, extVars>>
    \/ (DCWriteLog /\ DCPutLog)
          /\ UNCHANGED <<evVars, bufVars, ssVars, taskVars, fmVars, rpVars, envVars,
                         loopVars, lockOwner, lkPc, lkLock, caVars, stVars>>
    \/ (\E n \in LogCounts : GetLatestLogs(n))
          /\ UNCHANGED <<evVars, bufVars, ssVars, taskVars, dcVars, fmVars, rpVars, envVars,
                         loopVars, lockOwner, lkPc, lkLock, caVars, stVars>>
SpecLogQueue == Init /\ [][NextLogQueue]_vars

\* Data Collector ticking for ever while a bounded number of the events it
\* logs are emitted at any time
NextLogTicks ==
    \/ (\E k \in DOMAIN LoggedEvents : EmitSome(LoggedEvents[k]))
          /\ UNCHANGED <<bufVars, ssVars, taskVars, dcVars, fmVars, rpVars, envVars, extVars>>
    \/ DCSnapshot
          /\ UNCHANGED <<evVars, bufVars, ssVars, taskVars, fmVars, rpVars, envVars, extVars>>
    \/ DCCheckEvents
          /\ UNCHANGED <<bufVars, ssVars, taskVars, fmVars, rpVars, envVars, extVars>>
    \/ DCWriteLog
          /\ UNCHANGED <<evVars, bufVars, ssVars, taskVars, fmVars, rpVars, envVars, extVars>>
SpecLogTicks ==
    /\ Init
    /\ [][NextLogTicks]_vars
    /\ WF_dcVars(DCSnapshot
                   /\ UNCHANGED <<evVars, bufVars, ssVars, taskVars, fmVars, rpVars, envVars, extVars>>)
    /\ WF_dcVars(DCCheckEvents
                   /\ UNCHANGED <<bufVars, ssVars, taskVars, fmVars, rpVars, envVars, extVars>>)
    /\ WF_dcVars(DCWriteLog
                   /\ UNCHANGED <<evVars, bufVars, ssVars, taskVars, fmVars, rpVars, envVars, extVars>>)

\* the eight run loops, each stopped by its own stop() at any time, with
\* bodies that may raise
NextLoops ==
    \/ (\E t \in LoopTasks : Stop(t))
          /\ UNCHANGED <<evVars, bufVars, ssVars, taskVars, dcVars, fmVars, rpVars, envVars,
                         lockOwner, lkPc, lkLock, caVars, lqVars, stVars>>
    \/ (\E t \in LoopTasks : LoopTest(t))
          /\ UNCHANGED <<evVars, bufVars, ssVars, taskVars, dcVars, fmVars, rpVars, envVars,
                         lockOwner, lkPc, lkLock, caVars, lqVars, stVars>>
    \/ (\E t \in LoopTasks : LoopBody(t))
          /\ UNCHANGED <<evVars, bufVars, ssVars, taskVars, dcVars, fmVars, rpVars, envVars,
                         lockOwner, lkPc, lkLock, caVars, lqVars, stVars>>
    \/ (\E t \in LoopTasks : LoopRaise(t))
          /\ UNCHANGED <<evVars, bufVars, ssVars, taskVars, dcVars, fmVars, rpVars, envVars,
                         lockOwner, lkPc, lkLock, caVars, lqVars, stVars>>
SpecLoops == Init /\ [][NextLoops]_vars

\* three threads calling the methods of the three objects
NextLocks ==
    \/ (\E p \in Threads, l \in Locks : CallMethod(p, l))
          /\ UNCHANGED <<evVars, bufVars, ssVars, taskVars, dcVars, fmVars, rpVars, envVars,
                         loopVars, caVars, lqVars, stVars>>
    \/ (\E p \in Threads : EnterWith(p))
          /\ UNCHANGED <<evVars, bufVars, ssVars, taskVars, dcVars, fmVars, rpVars, envVars,
                         loopVars, caVars, lqVars, stVars>>
    \/ (\E p \in Threads : LeaveWith(p))
          /\ UNCHANGED <<evVars, bufVars, ssVars, taskVars, dcVars, fmVars, rpVars, envVars,
                         loopVars, caVars, lqVars, stVars>>
    \/ (\E p \in Threads : ConditionWait(p))
          /\ UNCHANGED <<evVars, bufVars, ssVars, taskVars, dcVars, fmVars, rpVars, envVars,
                         loopVars, caVars, lqVars, stVars>>
    \/ (\E p \in Threads : ConditionWake(p))
          /\ UNCHANGED <<evVars, bufVars, ssVars, taskVars, dcVars, fmVars, rpVars, envVars,
                         loopVars, caVars, lqVars, stVars>>
    \/ (\E p \in Threads : TaskSleep(p))
          /\ UNCHANGED <<evVars, bufVars, ssVars, taskVars, dcVars, fmVars, rpVars, envVars,
                         loopVars, caVars, lqVars, stVars>>
    \/ (\E p \in Threads : TaskWake(p))
          /\ UNCHANGED <<evVars, bufVars, ssVars, taskVars, dcVars, fmVars, rpVars, envVars,
                         loopVars, caVars, lqVars, stVars>>
SpecLocks == Init /\ [][NextLocks]_vars

\* Collision Avoidance as it runs with the SharedState of shared_state.py,
\* beside Route Planner, mode changes and one other truck
NextAvoid ==
    \/ (\E w \in RouteInputs : SetRoute(w))
          /\ UNCHANGED <<evVars, bufVars, ssVars, taskVars, dcVars, fmVars, envVars,
                         loopVars, lockOwner, lkPc, lkLock, caVars, lqVars, stVars>>
    \/ ChangeMode
          /\ UNCHANGED <<evVars, bufVars, taskVars, dcVars, fmVars, rpVars,
                         loopVars, lockOwner, lkPc, lkLock, caVars, lqVars, stVars>>
    \/ RPCheckNewRoute
          /\ UNCHANGED <<evVars, bufVars, ssVars, taskVars, dcVars, fmVars, envVars,
                         loopVars, lockOwner, lkPc, lkLock, caVars, lqVars, stVars>>
    \/ RPEmitNewRoute
          /\ UNCHANGED <<bufVars, ssVars, taskVars, dcVars, fmVars, envVars,
                         loopVars, lockOwner, lkPc, lkLock, caVars, lqVars, stVars>>
    \/ RPTestMode
          /\ UNCHANGED <<evVars, bufVars, ssVars, taskVars, dcVars, fmVars, envVars,
                         loopVars, lockOwner, lkPc, lkLock, caVars, lqVars, stVars>>
    \/ RPUpdateSetpoints
          /\ UNCHANGED <<evVars, bufVars, taskVars, dcVars, fmVars, envVars,
                         loopVars, lockOwner, lkPc, lkLock, caVars, lqVars, stVars>>
    \/ RPEmitTargetReached
          /\ UNCHANGED <<bufVars, ssVars, taskVars, dcVars, fmVars, envVars,
                         loopVars, lockOwner, lkPc, lkLock, caVars, lqVars, stVars>>
    \/ RPSetSetpoints
          /\ UNCHANGED <<evVars, bufVars, taskVars, dcVars, fmVars, envVars,
                         loopVars, lockOwner, lkPc, lkLock, caVars, lqVars, stVars>>
    \/ RPSetTarget
          /\ UNCHANGED <<evVars, bufVars, taskVars, dcVars, fmVars, envVars,
                         loopVars, lockOwner, lkPc, lkLock, caVars, lqVars, stVars>>
    \/ (\E x \in TrackInputs : MoveVehicle(x))
          /\ UNCHANGED <<evVars, bufVars, taskVars, dcVars, fmVars, rpVars, envVars,
                         loopVars, lockOwner, lkPc, lkLock, caVars, lqVars, stVars>>
    \/ (\E pos \in {<<3, 0>>, <<8, 0>>} : UpdatePeer(1, pos))
          /\ UNCHANGED <<evVars, bufVars, ssVars, taskVars, dcVars, fmVars, rpVars, envVars,
                         loopVars, lockOwner, lkPc, lkLock, lqVars, stVars>>
    \/ RemovePeer(1)
          /\ UNCHANGED <<evVars, bufVars, ssVars, taskVars, dcVars, fmVars, rpVars, envVars,
                         loopVars, lockOwner, lkPc, lkLock, lqVars, stVars>>
    \/ CASnapshot
          /\ UNCHANGED <<evVars, bufVars, ssVars, taskVars, dcVars, fmVars, rpVars, envVars,
                         loopVars, lockOwner, lkPc, lkLock, lqVars, stVars>>
    \/ CACheckRaises
          /\ UNCHANGED <<evVars, bufVars, ssVars, taskVars, dcVars, fmVars, rpVars, envVars,
                         loopVars, lockOwner, lkPc, lkLock, lqVars, stVars>>
SpecAvoid == Init /\ [][NextAvoid]_vars

\* Collision Avoidance with a SharedState that returns the other trucks,
\* the vehicle turning, mode changes and, while no avoidance is going on,
\* another task writing the setpoints (5 m/s, heading 0)
NextAvoidPeers ==
    \/ ChangeMode
          /\ UNCHANGED <<evVars, bufVars, taskVars, dcVars, fmVars, rpVars,
                         loopVars, lockOwner, lkPc, lkLock, caVars, lqVars, stVars>>
    \/ (\E th \in {0, 90} :
          /\ th # state.theta
          /\ StateCall(SetPosition(0, 0, th, 0)))
          /\ UNCHANGED <<evVars, bufVars, taskVars, dcVars, fmVars, rpVars, envVars,
                         loopVars, lockOwner, lkPc, lkLock, caVars, lqVars, stVars>>
    \/ (/\ ~avoidance_active /\ caPc = "get_state"
        /\ state.velocity_setpoint # 10
        /\ StateCall(SetSetpoints(10, 0)))
          /\ UNCHANGED <<evVars, bufVars, taskVars, dcVars, fmVars, rpVars, envVars,
                         loopVars, lockOwner, lkPc, lkLock, caVars, lqVars, stVars>>
    \/ (\E id \in 1..MaxPeers, pos \in PeerInputs : UpdatePeer(id, pos))
          /\ UNCHANGED <<evVars, bufVars, ssVars, taskVars, dcVars, fmVars, rpVars, envVars,
                         loopVars, lockOwner, lkPc, lkLock, lqVars, stVars>>
    \/ (\E id \in 1..MaxPeers : RemovePeer(id))
          /\ UNCHANGED <<evVars, bufVars, ssVars, taskVars, dcVars, fmVars, rpVars, envVars,
                         loopVars, lockOwner, lkPc, lkLock, lqVars, stVars>>
    \/ CASnapshot
          /\ UNCHANGED <<evVars, bufVars, ssVars, taskVars, dcVars, fmVars, rpVars, envVars,
                         loopVars, lockOwner, lkPc, lkLock, lqVars, stVars>>
    \/ CACheckCollisions
          /\ UNCHANGED <<evVars, bufVars, ssVars, taskVars, dcVars, fmVars, rpVars, envVars,
                         loopVars, lockOwner, lkPc, lkLock, lqVars, stVars>>
    \/ CASetSetpoints
          /\ UNCHANGED <<evVars, bufVars, taskVars, dcVars, fmVars, rpVars, envVars,
                         loopVars, lockOwner, lkPc, lkLock, lqVars, stVars>>
SpecAvoidPeers == Init /\ [][NextAvoidPeers]_vars

\* the supervisory station: trucks reporting, the operator selecting a
\* truck, editing the waypoint list and pressing the buttons
NextStation ==
    \/ (\E id \in TruckIds, payload \in StatePayloads : OnMqttMessage(id, payload))
          /\ UNCHANGED <<evVars, bufVars, ssVars, taskVars, dcVars, fmVars, rpVars, envVars,
                         loopVars, lockOwner, lkPc, lkLock, caVars, lqVars>>
    \/ (\E id \in TruckIds, payload \in PositionPayloads : OnMqttMessage(id, payload))
          /\ UNCHANGED <<evVars, bufVars, ssVars, taskVars, dcVars, fmVars, rpVars, envVars,
                         loopVars, lockOwner, lkPc, lkLock, caVars, lqVars>>
    \/ (\E id \in TruckIds : OnTruckSelect(id))
          /\ UNCHANGED <<evVars, bufVars, ssVars, taskVars, dcVars, fmVars, rpVars, envVars,
                         loopVars, lockOwner, lkPc, lkLock, caVars, lqVars>>
    \/ (\E xText \in XTexts, yText \in YTexts : AddWaypoint(xText, yText))
          /\ UNCHANGED <<evVars, bufVars, ssVars, taskVars, dcVars, fmVars, rpVars, envVars,
                         loopVars, lockOwner, lkPc, lkLock, caVars, lqVars>>
    \/ (\E index \in 0..(MaxWaypoints - 1) : RemoveWaypoint(index))
          /\ UNCHANGED <<evVars, bufVars, ssVars, taskVars, dcVars, fmVars, rpVars, envVars,
                         loopVars, lockOwner, lkPc, lkLock, caVars, lqVars>>
    \/ ClearWaypoints
          /\ UNCHANGED <<evVars, bufVars, ssVars, taskVars, dcVars, fmVars, rpVars, envVars,
                         loopVars, lockOwner, lkPc, lkLock, caVars, lqVars>>
    \/ (\E b \in Buttons : SendButton(b))
          /\ UNCHANGED <<evVars, bufVars, ssVars, taskVars, dcVars, fmVars, rpVars, envVars,
                         loopVars, lockOwner, lkPc, lkLock, caVars, lqVars>>
SpecStation == Init /\ [][NextStation]_vars



(***************************************************************************)
(* Claims about the EventManager                                           *)
(***************************************************************************)

C2_FifoPerType ==
    /\ \A i, j \in DOMAIN delivered :
          (i < j /\ delivered[i].event_type = delivered[j].event_type)
             => delivered[i].id < delivered[j].id
    /\ \A t \in EventType : \A k \in DOMAIN events[t] :
          /\ \A m \in DOMAIN events[t] : k < m => events[t][k].id < events[t][m].id
          /\ \A i \in DOMAIN delivered :
                delivered[i].event_type = t => delivered[i].id < events[t][k].id

\* two events of one type were returned and a third of that type is queued
C2_Witness ==
    \E i, j \in DOMAIN delivered :
       /\ i < j
       /\ delivered[i].event_type = delivered[j].event_type
       /\ events[delivered[i].event_type] # <<>>

\* a thread suspended in _condition.wait that nobody has notified
Blocked(p) == p \in waiters

\* the step in which thread p leaves one pass of the loop of wait_for_event
LeavesWaitLoop(p) == pc[p] = "wait_loop" /\ pc'[p] # "wait_loop"

\* C3: no lost wakeup: a thread never stays suspended in wait_for_event while
\* a queue of one of its types is non-empty and the channel is not shut down;
\* and a thread that runs the loop with such a queue non-empty (and no
\* shutdown) returns an event of one of its types.
C3_NoLostWakeup ==
    /\ [](\A p \in Threads :
            Blocked(p) => /\ ~shutdownFlag
                          /\ \A t \in arg[p].types : events[t] = <<>>)
    /\ [][\A p \in Threads :
            (/\ LeavesWaitLoop(p)
             /\ ~shutdownFlag
             /\ \E t \in arg[p].types : events[t] # <<>>)
            => /\ pc'[p] = "idle"
               /\ Len(delivered') = Len(delivered) + 1
               /\ delivered'[Len(delivered')].event_type \in arg[p].types]_vars

\* a thread that waited without timeout was notified by an emit of one of
\* its types and is about to re-run the loop, while another is still suspended
C3_Witness ==
    \E p \in Threads :
       /\ pc[p] = "wait_blocked"
       /\ ~Blocked(p)
       /\ ~arg[p].timeout
       /\ ~shutdownFlag
       /\ \E t \in arg[p].types : events[t] # <<>>

\* C4: shutdown is permanent and wakes every waiter: once the flag is set it
\* stays set, no thread is suspended in wait_for_event, and every pass of the
\* loop of wait_for_event returns None (nothing is delivered, the thread does
\* not suspend), even when events are queued.
C4_ShutdownWakesAll ==
    /\ [](shutdownFlag => \A p \in Threads : ~Blocked(p))
    /\ [][/\ shutdownFlag => shutdownFlag'
          /\ \A p \in Threads :
                (shutdownFlag /\ LeavesWaitLoop(p))
                => (pc'[p] = "idle" /\ delivered' = delivered)]_vars

\* after shutdown a woken waiter is about to return None although an event
\* of its type is queued
C4_Witness ==
    /\ shutdownFlag
    /\ \E p \in Threads :
          /\ pc[p] = "wait_blocked"
          /\ \E t \in arg[p].types : events[t] # <<>>

(***************************************************************************)
(* Claims about the CircularBuffer                                         *)
(***************************************************************************)

\* the last n items of a list
LastN(s, n) == SubSeq(s, Len(s) - Min(Len(s), n) + 1, Len(s))

\* C5: after k writes since creation or the last clear, the buffer of
\* capacity N holds, and read_all returns, exactly the last min(k, N) samples
\* written, in write order (a write on a full buffer drops only the oldest).
C5_LastNSamples ==
    /\ buffer = LastN(written, BufferSize)
    /\ Len(buffer) = Min(Len(written), BufferSize)
    /\ bufRet.op = "read_all" =>
          /\ bufRet.value = LastN(bufRet.seen, BufferSize)
          /\ Len(bufRet.value) = Min(Len(bufRet.seen), BufferSize)

\* read_all ran after more writes than the capacity
C5_Witness ==
    /\ bufRet.op = "read_all"
    /\ Len(bufRet.seen) > BufferSize
    /\ Len(bufRet.value) = BufferSize

(***************************************************************************)
(* Claims about the SharedState                                            *)
(***************************************************************************)

\* the copy of the fields in F taken from record st
Projection(st, F) == [f \in F |-> st[f]]

\* C6: no getter observes a partially updated record: the fields a getter
\* (get_state, get_position, get_actuators, get_setpoints) has copied are
\* those of the state with every mutator call applied entirely or not at
\* all; and outside the mutators the record is that state.
C6_AtomicRecord ==
    /\ \A p \in Callers :
          ssPc[p] = "read" => ssSnap[p] = Projection(committed, DOMAIN ssSnap[p])
    /\ \A p \in Callers :
          ssPc[p] = "write" => ApplySeq(state, ssTodo[p]) = committed
    /\ ssLock = "free" => state = committed

\* get_position is about to return the four values of one set_position call
\* made after another set_position call
C6_Witness ==
    \E p \in Callers :
       /\ ssPc[p] = "read"
       /\ Len(ssTodo[p]) = 0
       /\ DOMAIN ssSnap[p] = {"position_x", "position_y", "theta", "velocity"}
       /\ ssSnap[p] = [position_x |-> 2, position_y |-> 0, theta |-> 1, velocity |-> 2]

\* C7: at every observation point (no mutator in progress) the stored
\* actuator commands are within [-1, 1], whatever values set_actuators and
\* update_state were called with.
C7_ActuatorsClamped ==
    ssLock = "free" =>
       /\ state.acceleration_cmd \in -1..1
       /\ state.steering_cmd \in -1..1

(***************************************************************************)
(* Claims about Command Logic and Navigation Control                       *)
(***************************************************************************)

\* C8: in every state observable through get_state, status = EMERGENCY if
\* and only if emergency_stop = true.
C8_EmergencyIffStop ==
    (state.status = "EMERGENCY") <=> state.emergency_stop

\* the step in which Command Logic decides what to do with command c
Decides(c) == clPc = "decide" /\ clCmd = c /\ clPc' = "run"

C10_FaultTickZeroesActuators ==
    (/\ navPc = "snapshot"
     /\ navSnap.status = "EMERGENCY" \/ HasFault(navSnap))
    => /\ ~navRanPid
       /\ state.acceleration_cmd = 0
       /\ state.steering_cmd = 0

(***************************************************************************)
(* Claims about the emergency stop                                           *)
(***************************************************************************)

\* C11: once Command Logic has handled the emergency (status EMERGENCY,
\* actuators zeroed, EMERGENCY_STOP emitted) and until RESET_EMERGENCY is
\* processed, every iteration of Navigation Control that starts from a
\* snapshot with status EMERGENCY and leaves no EMERGENCY_STOP event pending
\* ends with acceleration_cmd = steering_cmd = 0, also when an earlier
\* iteration wrote PID outputs from a snapshot taken before the emergency.
C11_EmergencyLatched ==
    (/\ navPc = "snapshot"
     /\ navSnap.status = "EMERGENCY"
     /\ state.status = "EMERGENCY"
     /\ ~(clPc = "run" /\ clCmd = "EMERGENCY_STOP")
     /\ events["EMERGENCY_STOP"] = <<>>)
    => /\ state.acceleration_cmd = 0
       /\ state.steering_cmd = 0

\* C12: every EMERGENCY_STOP event that leaves its queue is consumed by
\* Navigation Control (which then disables the PIDs and writes (0, 0)), never
\* by Data Collector, whose check_event would take it away from Navigation
\* Control.
C12_EmergencyStopReachesNav ==
    \A e \in dcTaken : e.event_type # "EMERGENCY_STOP"

(***************************************************************************)
(* Claims about Navigation Control and the mode                            *)
(***************************************************************************)

\* C13: when Navigation Control computes the PIDs in an iteration, every
\* change from MANUAL_LOCAL to AUTOMATIC_REMOTE made before the iteration's
\* snapshot (the odd-numbered mode changes) has been followed by enable on
\* both PIDs; and after the mode test of an iteration whose snapshot is
\* MANUAL_LOCAL both PIDs are disabled.
C13_ModeEdgesSeen ==
    /\ (navPc = "check_events" /\ navRanPid) => enabledAt = navSeenChanges
    /\ (navPc = "check_events" /\ IsManual(navSnap))
          => (~controllers.velocity /\ ~controllers.angular)

\* C14: judged at the moment of the write, Navigation Control writes
\* setpoints (the manual branch of an iteration) only while the shared mode
\* is MANUAL_LOCAL and writes PID outputs to the actuators (the automatic
\* branch) only while it is AUTOMATIC_REMOTE.
C14_NavWritesByMode ==
    [][(navPc = "control" /\ navPc' = "check_events")
          => /\ IsManual(navSnap) => state.mode = "MANUAL_LOCAL"
             /\ navRanPid' => state.mode = "AUTOMATIC_REMOTE"]_vars

(***************************************************************************)
(* Claims about Route Planner                                              *)
(***************************************************************************)

\* C15: judged at the moment of the write, Route Planner writes setpoints
\* and target only while the shared mode is AUTOMATIC_REMOTE; and an
\* iteration that observes MANUAL_LOCAL or has no route leaves the state as
\* it is.
C15_PlannerWritesInAutomatic ==
    [][/\ (\/ rpPc = "set_setpoints" /\ rpPc' = "set_target"
           \/ rpPc = "set_target" /\ rpPc' = "check_new_route"
           \/ rpPc = "update_setpoints" /\ rpPc' = "emit_target_reached")
          => state.mode = "AUTOMATIC_REMOTE"
       /\ (rpPc = "test_mode" /\ rpPc' = "check_new_route") => state' = state]_vars

\* C16: the step of an iteration that finds k >= 1 lists in the waypoint
\* queue leaves the last list enqueued as the current route, with
\* current_waypoint_idx = 0.
C16_LatestRouteWins ==
    [][(rpPc = "check_new_route" /\ rpPc' # rpPc /\ waypointQueue # <<>>)
          => /\ route' = waypointQueue[Len(waypointQueue)]
             /\ current_waypoint_idx' = 0]_vars

\* C17: exactly one TARGET_REACHED is emitted per completed route: whenever
\* the planner holds no completed route (no route, or waypoints still to
\* reach), every route whose last waypoint was reached has had its
\* TARGET_REACHED, and never more than one.
C17_OneTargetReachedPerRoute ==
    /\ targetsReached <= routesCompleted
    /\ (route = <<>> \/ current_waypoint_idx < Len(route))
          => targetsReached = routesCompleted

\* C18: the planner advances the waypoint index for every distance d <=
\* waypoint_threshold between the pose and the current waypoint, d =
\* waypoint_threshold included.
C18_ThresholdReached ==
    [][(/\ rpPc = "update_setpoints"
        /\ rpPc' # rpPc
        /\ current_waypoint_idx < Len(route)
        /\ Distance(state.position_x, state.position_y,
                    route[current_waypoint_idx + 1][1],
                    route[current_waypoint_idx + 1][2]) <= WaypointThreshold)
          => current_waypoint_idx' = current_waypoint_idx + 1]_vars

(***************************************************************************)
(* Claims about Fault Monitoring and Data Collector                        *)
(***************************************************************************)

\* C19: per channel the events of Fault Monitoring alternate, starting with
\* the channel's fault event and followed by FAULT_CLEARED for that channel;
\* the edge flag tells which came last, every fault event is in its queue,
\* and at the end of an iteration the flag equals the fault condition just
\* read, so that an iteration emits for a channel exactly when the condition
\* differs from the previous iteration's.
C19_EdgesAlternate ==
    \A ch \in {"temperature", "electrical", "hydraulic"} :
       LET log == SelectSeq(fmLog, LAMBDA e : e[2] = ch)
       IN  /\ \A i \in DOMAIN log :
                 log[i][1] = IF i % 2 = 1 THEN FaultEvent(ch) ELSE "FAULT_CLEARED"
           /\ prevFault[ch] = (Len(log) % 2 = 1)
           /\ Len(events[FaultEvent(ch)]) = (Len(log) + 1) \div 2
           /\ (fmPc = "read" /\ fmTicks > 0)
                 => prevFault[ch] = ChannelFault(ch, fmSensor)

\* a channel raised a fault, cleared it and raised it again, while another
\* channel stayed as it was
C19_Witness ==
    /\ fmPc = "read"
    /\ \E ch \in {"temperature", "electrical", "hydraulic"} :
          Len(SelectSeq(fmLog, LAMBDA e : e[2] = ch)) = 3
    /\ \E ch \in {"temperature", "electrical", "hydraulic"} :
          Len(SelectSeq(fmLog, LAMBDA e : e[2] = ch)) = 0

\* C20: when an iteration of Data Collector writes its entry, it has
\* consumed an event from every queue polled after the one it took an event
\* from, if that queue held an event emitted before the one taken; the
\* description is that of a consumed event, or 'Status normal' when none was
\* consumed.
C20_OneEventPerQueue ==
    dcPc = "write" =>
       /\ \A j, k \in DOMAIN LoggedEvents :
             (/\ j < k
              /\ events[LoggedEvents[k]] # <<>>
              /\ \E e \in dcTaken :
                    /\ e.event_type = LoggedEvents[j]
                    /\ Head(events[LoggedEvents[k]]).id < e.id)
             => \E e \in dcTaken : e.event_type = LoggedEvents[k]
       /\ (dcDescription = "Status normal") <=> (dcTaken = {})
       /\ dcTaken # {}
             => \E e \in dcTaken : dcDescription = Description(e.event_type)


(***************************************************************************)
(* Claims about read_last_n                                                *)
(***************************************************************************)

\* C30: read_last_n(n) returns, for every n >= 0 (n = 0 and n > size
\* included), the min(n, size) most recent samples in write order, at most n
\* of them, and leaves the buffer unchanged.
C30_ReadLastN ==
    [][\A n \in 0..(BufferSize + 1) :
          ReadLastN(n) =>
             /\ bufRet'.value = LastN(buffer, n)
             /\ Len(bufRet'.value) = Min(n, Len(buffer))
             /\ Len(bufRet'.value) <= n
             /\ buffer' = buffer]_vars

(***************************************************************************)
(* Claims about the log file                                               *)
(***************************************************************************)

\* C21: a log entry whose append to the log file failed is appended on a
\* later tick once the file is writable again (after an iteration whose
\* append succeeds no earlier entry is missing from the file), and a failed
\* append never keeps the iteration from ending and the next from starting.
C21_FailedAppendRetried ==
    [][(dcPc = "write" /\ dcPc' # dcPc)
          => /\ sinkOk => dcFailed' = <<>>
             /\ dcPc' = "snapshot"]_vars

(***************************************************************************)
(* Claims about the run loops                                              *)
(***************************************************************************)

\* C22 as stated: the tasks observe one shared stop event, so that once a
\* stop is set no periodic task starts a new iteration.
C22_SharedStopEvent ==
    [][\A t, u \in LoopTasks :
          stopEvent[t] => ~(loopPc[u] = "test" /\ loopPc'[u] = "body")]_vars

\* C22 amended: every task observes its own stop event. Once it is set the
\* task starts no new iteration: setting it leaves the current iteration
\* alone, the next test of the while condition ends the loop, and the ended
\* loop stays ended.
C22_OwnStopEvent ==
    [][\A t \in LoopTasks :
          /\ stopEvent[t] => ~(loopPc[t] = "test" /\ loopPc'[t] = "body")
          /\ (stopEvent[t] /\ loopPc[t] = "test" /\ loopPc'[t] # "test")
                => loopPc'[t] = "finished"
          /\ loopPc[t] = "finished" => loopPc'[t] = "finished"
          /\ (~stopEvent[t] /\ stopEvent'[t]) => loopPc'[t] = loopPc[t]]_vars

\* a task stopped during an iteration has left its loop while another task,
\* not stopped, is inside an iteration
C22_Witness ==
    \E t, u \in LoopTasks :
       /\ stopEvent[t] /\ loopPc[t] = "finished"
       /\ ~stopEvent[u] /\ loopPc[u] = "body"

\* C23: an error raised inside the iteration body of any task is caught and
\* the task runs its next tick; no task's loop is left because of an error in
\* one iteration.
C23_ErrorsStayInIteration ==
    [][\A t \in LoopTasks :
          loopPc[t] = "body" => loopPc'[t] \in {"body", "test"}]_vars

(***************************************************************************)
(* Claims about the mutexes                                                *)
(***************************************************************************)

\* C24: no thread acquires one of the three mutexes while holding another,
\* none sleeps or is suspended while holding one, and so no thread waits for
\* a mutex whose holder is itself waiting: the holder can always leave.
C24_NoNestedLocking ==
    \A p \in Threads :
       LET held == {l \in Locks : lockOwner[l] = p} IN
       /\ Cardinality(held) <= 1
       /\ lkPc[p] \in {"acquire", "sleep", "cond_wait", "outside"} => held = {}
       /\ lkPc[p] = "acquire" =>
             \/ lockOwner[lkLock[p]] = "free"
             \/ /\ lkPc[lockOwner[lkLock[p]]] = "inside"
                /\ ENABLED LeaveWith(lockOwner[lkLock[p]])

\* a thread waits for the mutex a second thread holds while a third holds
\* another mutex
C24_Witness ==
    \E p, q, r \in Threads :
       /\ lkPc[p] = "acquire" /\ lockOwner[lkLock[p]] = q
       /\ r # q /\ \E l \in Locks : lockOwner[l] = r

(***************************************************************************)
(* Claims about Collision Avoidance                                        *)
(***************************************************************************)

\* C25: in an automatic-mode tick where the closest truck inside the heading
\* cone and within 2 x warning_distance is nearer than safety_distance, the
\* task marks avoidance active and sets velocity_setpoint to 0, leaving
\* angular_setpoint unchanged; when no truck qualifies it deactivates and
\* writes no setpoint.
C25_StopInsideSafetyDistance ==
    [][/\ (caPc = "check_collisions" /\ caPc' # caPc) =>
             LET closest == ClosestTruck(state, otherTrucks) IN
             /\ (closest.id # 0 /\ closest.distance < SafetyDistance)
                   => /\ avoidance_active'
                      /\ caPc' = "set_setpoints"
                      /\ caWrite' = <<0, NoneNum>>
             /\ closest.id = 0
                   => /\ ~avoidance_active'
                      /\ caPc' = "get_state"
                      /\ state' = state
       /\ (caPc = "set_setpoints" /\ caPc' # caPc /\ caWrite = <<0, NoneNum>>) =>
             /\ state'.velocity_setpoint = 0
             /\ state'.angular_setpoint = state.angular_setpoint]_vars

\* C26: with own heading 0, velocity_setpoint 5 m/s and a single truck 8 m
\* dead ahead, the tick sets velocity_setpoint to 5 x 0.6 = 3 m/s and
\* angular_setpoint to the own heading minus 30 degrees.
C26_CollisionSlowdown ==
    [][(/\ caPc = "check_collisions" /\ caPc' # caPc
        /\ state.theta = 0 /\ state.velocity_setpoint = 10
        /\ DOMAIN otherTrucks = {1}
        /\ otherTrucks[1] = <<state.position_x + 8, state.position_y>>)
          => /\ caPc' = "set_setpoints"
             /\ caWrite' = <<6, state.theta - 30>>]_vars

\* C27: when a tick of active avoidance finds no truck in the cone nearer
\* than warning_distance, avoidance becomes inactive and the velocity and
\* angular setpoints are again what they were before avoidance changed them.
C27_SetpointsRestored ==
    [][(/\ caPc = "check_collisions" /\ caPc' # caPc
        /\ avoidance_active
        /\ LET closest == ClosestTruck(state, otherTrucks)
           IN  closest.id = 0 \/ closest.distance >= WarningDistance)
          => /\ ~avoidance_active'
             /\ <<state'.velocity_setpoint, state'.angular_setpoint>> = caSaved]_vars

\* C28: after Route Planner has written a non-zero velocity setpoint, a tick
\* of Collision Avoidance that runs with a truck inside safety_distance in
\* the heading cone from its check to its end, and ends with the mode
\* automatic, has set velocity_setpoint to 0 again.
C28_AvoidanceOverridesPlanner ==
    [][(/\ caPc' = "get_state"
        /\ \/ /\ caPc = "check_collisions"
              /\ LET closest == ClosestTruck(state, otherTrucks)
                 IN  closest.id # 0 /\ closest.distance < SafetyDistance
           \/ /\ caPc = "set_setpoints"
              /\ caWrite = <<0, NoneNum>>
        /\ IsAutomatic(state')
        /\ LET closest == ClosestTruck(state', otherTrucks')
           IN  closest.id # 0 /\ closest.distance < SafetyDistance)
          => state'.velocity_setpoint = 0]_vars

(***************************************************************************)
(* Claims about the emergency round trip                                   *)
(***************************************************************************)

C34_EventConservation ==
    [][\A p \in Threads :
         (pc'[p] # pc[p]) =>
           /\ \A t \in EventType :
                LET queued == Len(events[t]) + Cardinality({i \in DOMAIN delivered : delivered[i].event_type = t})
                    queuedNext == Len(events'[t]) + Cardinality({i \in DOMAIN delivered' : delivered'[i].event_type = t})
                IN  /\ (t \notin arg[p].types) => events'[t] = events[t]
                    /\ IF pc[p] = "clear" /\ t \in arg[p].types
                       THEN events'[t] = <<>> /\ queuedNext = queued - Len(events[t])
                       ELSE IF pc[p] = "emit" /\ t \in arg[p].types
                       THEN queuedNext = queued + 1 /\ emitted' = emitted + 1
                       ELSE queuedNext = queued
           /\ (pc[p] # "emit") => emitted' = emitted
           /\ (delivered' = delivered /\ pc[p] \notin {"emit", "clear"})
                 => events' = events]_vars

\* all the events explored were emitted; one was delivered, one is still
\* queued and clear_events dropped the third
C34_Witness ==
    /\ emitted = MaxEmits
    /\ Len(delivered) = 1
    /\ \E t \in EventType : Len(events[t]) = 1
    /\ \A t \in EventType : Len(events[t]) <= 1
    /\ Cardinality({t \in EventType : events[t] # <<>>}) = 1
    /\ \A p \in Threads : pc[p] = "idle"

(***************************************************************************)
(* Claims about the controllers of Navigation Control                      *)
(***************************************************************************)

\* C35: in every Navigation Control tick that runs the PIDs (the snapshot is
\* in automatic mode with a status other than EMERGENCY) both controllers
\* are enabled when _execute_control computes, also after the task disabled
\* them on an EMERGENCY_STOP event, whatever the mode and the status did
\* between the ticks.
C35_PidsEnabledWhenRun ==
    [][(/\ navPc = "control"
        /\ navPc' = "check_events"
        /\ IsAutomatic(navSnap)
        /\ navSnap.status # "EMERGENCY")
       => (controllers'.velocity /\ controllers'.angular)]_vars

(***************************************************************************)
(* Claims about the waypoint index of the Route Planner                    *)
(***************************************************************************)

\* C39: the Route Planner never indexes its route out of bounds: whenever
\* _update_setpoints reads route[current_waypoint_idx] (first read: the
\* route is not treated as finished; second read: the index advanced and the
\* route was not completed by it), 0 <= current_waypoint_idx < len(route);
\* the index changes only by the reset to 0 of a new route or by an advance
\* of one waypoint, at most once in a tick.
C39_IndexInBounds ==
    [][/\ (/\ rpPc = "update_setpoints"
           /\ rpPc' \notin {"update_setpoints", "emit_target_reached"})
          => /\ 0 <= current_waypoint_idx
             /\ current_waypoint_idx < Len(route)
       /\ (/\ rpPc = "update_setpoints"
           /\ current_waypoint_idx' # current_waypoint_idx
           /\ routesCompleted' = routesCompleted)
          => /\ 0 <= current_waypoint_idx'
             /\ current_waypoint_idx' < Len(route)
       /\ (current_waypoint_idx' # current_waypoint_idx)
          => \/ rpPc = "check_new_route" /\ current_waypoint_idx' = 0
             \/ /\ rpPc = "update_setpoints"
                /\ current_waypoint_idx' = current_waypoint_idx + 1
                /\ rpPc' \in {"check_new_route", "set_setpoints"}]_vars

\* a route of one waypoint has replaced a route of two that the planner had
\* advanced on, and the planner has read the waypoint of the new route
C39_Witness ==
    /\ routesSent = 2
    /\ route = << <<1, 0>> >>
    /\ current_waypoint_idx = 0
    /\ rpPc = "set_setpoints"
    /\ state.target_x = 1
    /\ state.velocity_setpoint > 0
    /\ rpPlan.target_x = 1

(***************************************************************************)
(* Claims about the queues into the controller                             *)
(***************************************************************************)

\* C37: every command the local operator issues reaches the command queue:
\* each send_command call, EMERGENCY_STOP included, appends its command to
\* the queue whatever the fill level; likewise each set_route/add_waypoint
\* call appends its list to the waypoint queue.
C37_EveryCommandEnqueued ==
    [][/\ (cmdsSent' # cmdsSent)
          => \E c \in CommandType \cup {"ACCELERATE"} :
                cmdQueue' = Append(cmdQueue, c)
       /\ (routesSent' # routesSent)
          => \E w \in RouteInputs : waypointQueue' = Append(waypointQueue, w)]_vars

(***************************************************************************)
(* Claims about the log queue                                              *)
(***************************************************************************)

\* C33: every call get_latest_logs(n) returns the n most recent log entries
\* the Data Collector has produced, oldest of them first, or all the entries
\* produced when fewer than n exist, wherever the call falls between the
\* collector's ticks.
C33_LatestLogs ==
    [][(logsRet'.calls # logsRet.calls)
       => logsRet'.value =
            SubSeq(logsProduced,
                   Len(logsProduced) - Min(logsRet'.n, Len(logsProduced)) + 1,
                   Len(logsProduced))]_vars

(***************************************************************************)
(* Claims about the events the Data Collector logs                         *)
(***************************************************************************)

\* C38: while the Data Collector keeps ticking and finitely many events are
\* emitted, every MODE_CHANGED, EMERGENCY_RESET and TARGET_REACHED event
\* emitted is eventually the event of a log entry whose event_description
\* is the description of its type, the lower-priority types included; an
\* entry reflects at most one event, and an event taken for an entry has
\* left its queue, so that it is reflected in exactly one entry.
C38_EventsReachTheLog ==
    /\ \A t \in {"MODE_CHANGED", "EMERGENCY_RESET", "TARGET_REACHED"} :
          \A i \in 1..MaxEmits :
             (\E k \in DOMAIN events[t] : events[t][k] = Event(t, i))
                ~> (/\ dcPc = "write"
                    /\ dcTaken = {Event(t, i)}
                    /\ dcDescription = Description(t))
    /\ [](dcPc = "write"
            => \/ dcTaken = {} /\ dcDescription = "Status normal"
               \/ \E t \in DOMAIN events :
                     /\ t \in {LoggedEvents[k] : k \in DOMAIN LoggedEvents}
                     /\ \E i \in 1..MaxEmits :
                           /\ dcTaken = {Event(t, i)}
                           /\ dcDescription = Description(t)
                           /\ \A k \in DOMAIN events[t] : events[t][k] # Event(t, i))

\* the event of the lowest priority is in the entry being written, after an
\* event of the highest priority and an EMERGENCY_RESET were emitted and
\* logged before it
C38_Witness ==
    /\ emitted = MaxEmits
    /\ dcPc = "write"
    /\ dcDescription = Description("TARGET_REACHED")
    /\ dcTaken = {Event("TARGET_REACHED", 1)}
    /\ \A t \in EventType : events[t] = <<>>
    /\ \E i, j \in 2..MaxEmits :
          /\ Event("MODE_CHANGED", i) \in {delivered[k] : k \in DOMAIN delivered}
          /\ Event("EMERGENCY_RESET", j) \in {delivered[k] : k \in DOMAIN delivered}

(***************************************************************************)
(* Claims about repeated avoidance ticks                                   *)
(***************************************************************************)

\* C36: the warning-band slowdown is idempotent across avoidance ticks: when
\* avoidance is already active and the velocity_setpoint is the value of the
\* first tick (the setpoint the activating tick found, times the reduction
\* factor of the closest truck's distance), a further tick with the truck in
\* the warning band writes that same velocity_setpoint again, not a smaller
\* one.
C36_SlowdownIdempotent ==
    [][(/\ caPc = "check_collisions"
        /\ caPc' = "set_setpoints"
        /\ avoidance_active
        /\ caWrite'[2] # NoneNum
        /\ state.velocity_setpoint =
              ReducedVelocity(caSaved[1], ClosestTruck(state, otherTrucks).distance))
       => caWrite'[1] = state.velocity_setpoint]_vars

(***************************************************************************)
(* Claims about the supervisory station                                    *)
(***************************************************************************)
\* C31: every route the station publishes on mine/truck/{id}/route is
\* non-empty and holds only waypoints with 0 <= x <= 100 and 0 <= y <= 75,
\* whatever was added, removed and cleared before it was sent.
C31_PublishedRoutesValid ==
    (stationCall.sent /\ stationCall.button = "route")
        => /\ stationCall.waypoints # <<>>
           /\ \A i \in DOMAIN stationCall.waypoints :
                 /\ 0 <= stationCall.waypoints[i][1]
                 /\ stationCall.waypoints[i][1] <= 100
                 /\ 0 <= stationCall.waypoints[i][2]
                 /\ stationCall.waypoints[i][2] <= 75

\* a route of two waypoints on the upper limits was published after an
\* earlier button
C31_Witness ==
    /\ stationCall.sent
    /\ stationCall.seq = 2
    /\ stationCall.button = "route"
    /\ stationCall.waypoints = << <<100, 75>>, <<100, 75>> >>

\* C32: a handler of a mode, motion or route button publishes nothing for a
\* truck whose last reported state shows a fault (electrical_fault,
\* hydraulic_fault, emergency_stop or temperature above 100), and the
\* handlers of EMERGENCY_STOP and RESET_FAULT publish for the selected truck
\* whatever it reported.
C32_NoCommandToFaultedTruck ==
    [][(stationCall'.seq # stationCall.seq)
         => LET b == stationCall'.button
                id == stationCall'.truck_id
                data == IF id \in DOMAIN trucks THEN trucks[id] ELSE NoDict
                reportsFault ==
                    \/ DictGet(data, "electrical_fault", FALSE)
                    \/ DictGet(data, "hydraulic_fault", FALSE)
                    \/ DictGet(data, "emergency_stop", FALSE)
                    \/ DictGet(data, "temperature", 0) > 100
            IN  /\ (b \notin {"emergency", "reset_fault"} /\ reportsFault)
                      => ~stationCall'.sent
                /\ (b \in {"emergency", "reset_fault"} /\ id # NoneNum)
                      => stationCall'.sent]_vars
====
